---- MODULE Spec2Model ----
(***************************************************************************)
(* Routing core of the anyserve Dispatcher: the ModelRegistry              *)
(* (cpp/server/model_registry.cpp), the WorkerClient with its per-socket   *)
(* ConnectionPool (cpp/server/worker_client.cpp) and the KServe /          *)
(* WorkerManagement services of the Dispatcher (anyserve_dispatcher.cpp).  *)
(***************************************************************************)
EXTENDS Integers, Sequences, FiniteSets, TLC

(***************************************************************************)
(* Bounds and input universes                                              *)
(***************************************************************************)

\* Model names and versions handed to the registry API.  "a:v" is a legal
\* model name (the code puts no restriction on the characters of a name).
RegNames == {"a", "a:v"}
RegVersions == {"", "v"}
WorkerIds == {"w1", "w2"}

\* The socket path Worker w binds, and the address it registers.
SocketPathOf(w) == "/tmp/" \o w \o ".sock"
AddressOf(w) == "unix://" \o SocketPathOf(w)
SocketPaths == {SocketPathOf(w) : w \in WorkerIds}
Addresses == {AddressOf(w) : w \in WorkerIds}

\* Names and versions used by the clients and Workers of the running
\* Dispatcher.
ModelNames == {"a"}
ModelVersions == {"", "v"}

\* Number of gRPC handler threads that run ModelInfer concurrently.
MaxCalls == 2

\* WorkerClient::ConnectionPool::max_connections
max_connections == 10

Calls == 1..MaxCalls

\* Number of threads that call into one ModelRegistry concurrently.
MaxThreads == 2

Threads == 1..MaxThreads

\* Largest timeout, in seconds, handed to wait_for_ready.
MaxTimeout == 2

Timeouts == 0..MaxTimeout

\* Longest payload handed to send_data, and the byte values it is made of.
MaxPayload == 2

Bytes == {0, 1, 255}

Payloads == UNION {[1..n -> Bytes] : n \in 0..MaxPayload}

\* Sizes of larger payloads, of which only the length header is followed.
ProbeLengths == {255, 256, 65535, 65536, 16777216, 2147483647}

\* ProcessSupervisor::stop: turns of the waitpid(WNOHANG) loop.
StopPolls == 50

\* main (proxy): the argument of supervisor.wait_for_ready.
ReadyTimeout == 10

\* The AnyserveCore instances of one deployment (they share root_dir).
Replicas == {"r1", "r2", "r3"}

\* Number of control streams the Directory has accepted so far.
MaxStreams == 2

Streams == 1..MaxStreams

NotFound == "<nullopt>"

VARIABLES
    model_to_worker_,   \* ModelRegistry: model_key -> worker_address
    worker_to_models_,  \* ModelRegistry: worker_id -> vector of model_key
    worker_addresses_,  \* ModelRegistry: worker_id -> worker_address
    model_origin,       \* history: model_key -> arguments of the register_model
                        \* call that wrote the current model_to_worker_ entry
    ret,                \* the last registry call and what it returned
    pools_,             \* WorkerClient: socket_path -> ConnectionPool
    call,               \* per handler thread: the ModelInfer call it runs
    wire,               \* per handler thread: what the Worker did on its socket
    worker_proc,        \* per socket path: state of the Worker process
    mutex_,             \* ModelRegistry::mutex_: 0 unlocked, else the thread holding it
    thread,             \* per registry caller thread: the operation it is in
    committed,          \* history: model_to_worker_ as the last writer left it
                        \* when it unlocked mutex_
    worker_pid_,        \* ProcessSupervisor: pid of the child, -1 when none
    read_fd_,           \* ProcessSupervisor: read end of the readiness pipe, -1 when none
    child,              \* the process forked by spawn
    pipe,               \* the readiness pipe
    uds_file,           \* whether the socket file at uds_path exists
    sup,                \* the thread inside a ProcessSupervisor operation
    proxy,              \* main of the proxy: position, exit code, shutdown flag
    running_,           \* AnyserveDispatcher::running_
    server_,            \* AnyserveDispatcher::server_ (KServe port)
    management_server_, \* AnyserveDispatcher::management_server_
    disp,               \* the Dispatcher process: main thread, server threads, stop()
    local_capabilities_,\* AnyserveCore::local_capabilities_
    names_dir,          \* AnyserveCore: the files under <root>/names
    payload,            \* framing: the data handed to send_data
    sock,               \* framing: the bytes in flight on the socket
    xfer,               \* framing: progress and results of send_data / recv_data
    fleet,              \* per AnyserveCore instance: its local_capabilities_
    names_files,        \* the files <root>/names/<capability>/<instance_id> the
                        \* instances share, each holding an address
    dreq,               \* the external request that travels between instances
    replicas,           \* Directory: replica_id -> entry
    streams,            \* Directory: per control stream, its state and replica_id
    wc_mutex_,          \* WorkerClient::mutex_: 0 unlocked, else the call holding it
    backlog_full,       \* per socket path: the Worker's accept queue is full
    fd_table,           \* the socket descriptors the Dispatcher process has open
    held,               \* descriptor -> socket path of the Connections alive
                        \* outside the pool
    acquiring,          \* the ConnectionPool::acquire in progress
    orphans,            \* ProcessSupervisor: the children and pipe read ends that
                        \* worker_pid_ and read_fd_ no longer refer to
    handle,             \* ProcessSupervisor: the object's life and its write_fd_
    core,               \* AnyserveCore: running_, the thread in start() / stop()
                        \* and the thread in register_capability
    shm,                \* the RawShm objects: the value create returns and the
                        \* caller's objects
    shm_opened,         \* the descriptors shm_open has returned so far
    fd_closes           \* per such descriptor: the close() calls made on it

regvars == <<model_to_worker_, worker_to_models_, worker_addresses_, model_origin>>
dispvars == <<pools_, call, wire, worker_proc>>
concvars == <<mutex_, thread, committed>>
supvars == <<worker_pid_, read_fd_, child, pipe, uds_file, sup, proxy>>
lifevars == <<running_, server_, management_server_, disp>>
corevars == <<local_capabilities_, names_dir>>
framevars == <<payload, sock, xfer>>
delegvars == <<fleet, names_files, dreq>>
dirvars == <<replicas, streams>>
lockvars == <<wc_mutex_, backlog_full>>
connvars == <<fd_table, held, acquiring>>
respvars == <<orphans, handle>>
shmvars == <<shm, shm_opened, fd_closes>>
tailvars == <<core, shmvars>>
morevars == <<connvars, respvars, tailvars>>
clustervars == <<delegvars, dirvars, lockvars, morevars>>
vars == <<regvars, ret, dispvars, concvars, supvars, lifevars, corevars, framevars,
          clustervars>>

\* What the sequential registry API and the Dispatcher's handlers leave alone.
othervars == <<concvars, supvars, lifevars, corevars, framevars, clustervars>>

(***************************************************************************)
(* unordered_map / vector helpers                                          *)
(***************************************************************************)

MapPut(f, k, v) == [x \in (DOMAIN f) \cup {k} |-> IF x = k THEN v ELSE f[x]]

MapErase(f, ks) == [x \in (DOMAIN f) \ ks |-> f[x]]

EmptyMap == [x \in {} |-> x]

SeqRange(s) == {s[i] : i \in 1..Len(s)}

VecRemove(s, k) == SelectSeq(s, LAMBDA x : x # k)

(***************************************************************************)
(* ModelRegistry                                                           *)
(***************************************************************************)

make_model_key(name, version) ==
    IF version = "" THEN name ELSE name \o ":" \o version

\* register_model: upsert the forward entry, append the key to the worker's
\* vector unless already there, cache the worker address.
register_model(model_name, model_version, worker_address, worker_id) ==
    LET model_key == make_model_key(model_name, model_version)
        models == IF worker_id \in DOMAIN worker_to_models_
                  THEN worker_to_models_[worker_id] ELSE <<>>
    IN  /\ model_to_worker_' = MapPut(model_to_worker_, model_key, worker_address)
        /\ worker_to_models_' =
              MapPut(worker_to_models_, worker_id,
                     IF model_key \in SeqRange(models) THEN models
                     ELSE Append(models, model_key))
        /\ worker_addresses_' = MapPut(worker_addresses_, worker_id, worker_address)
        /\ model_origin' = MapPut(model_origin, model_key,
                                  [name |-> model_name, version |-> model_version,
                                   worker_id |-> worker_id])

\* lookup_worker: exact key first, then the version-less key when a
\* version was given.
lookup_worker(model_name, model_version) ==
    LET model_key == make_model_key(model_name, model_version)
        fallback_key == make_model_key(model_name, "")
    IN  IF model_key \in DOMAIN model_to_worker_
        THEN model_to_worker_[model_key]
        ELSE IF model_version # "" /\ fallback_key \in DOMAIN model_to_worker_
             THEN model_to_worker_[fallback_key]
             ELSE NotFound

\* unregister_worker: the value returned (count) ...
unregister_worker_count(worker_id) ==
    IF worker_id \in DOMAIN worker_to_models_
    THEN Len(worker_to_models_[worker_id]) ELSE 0

\* ... and the effect on the three indices.
unregister_worker(worker_id) ==
    LET keys == IF worker_id \in DOMAIN worker_to_models_
                THEN SeqRange(worker_to_models_[worker_id]) ELSE {}
    IN  /\ model_to_worker_' = MapErase(model_to_worker_, keys)
        /\ model_origin' = MapErase(model_origin, keys)
        /\ worker_to_models_' = MapErase(worker_to_models_, {worker_id})
        /\ worker_addresses_' = MapErase(worker_addresses_, {worker_id})

\* unregister_model: the value returned ...
unregister_model_result(model_name, model_version) ==
    make_model_key(model_name, model_version) \in DOMAIN model_to_worker_

\* Mutant: the worker's vector is cleaned before the forward index is
\* consulted, so a call that returns false can still change the registry.
unregister_model_ReverseFirst(model_name, model_version, worker_id) ==
    LET model_key == make_model_key(model_name, model_version)
    IN  /\ model_to_worker_' = MapErase(model_to_worker_, {model_key})
        /\ model_origin' = MapErase(model_origin, {model_key})
        /\ IF worker_id \in DOMAIN worker_to_models_
           THEN LET models == VecRemove(worker_to_models_[worker_id], model_key)
                IN  IF models = <<>>
                    THEN /\ worker_to_models_' = MapErase(worker_to_models_, {worker_id})
                         /\ worker_addresses_' = MapErase(worker_addresses_, {worker_id})
                    ELSE /\ worker_to_models_' = MapPut(worker_to_models_, worker_id, models)
                         /\ UNCHANGED worker_addresses_
           ELSE UNCHANGED <<worker_to_models_, worker_addresses_>>

\* ... and the effect on the three indices.
unregister_model(model_name, model_version, worker_id) ==
    LET model_key == make_model_key(model_name, model_version)
    IN  IF model_key \notin DOMAIN model_to_worker_
        THEN UNCHANGED regvars
        ELSE /\ model_to_worker_' = MapErase(model_to_worker_, {model_key})
             /\ model_origin' = MapErase(model_origin, {model_key})
             /\ IF worker_id \in DOMAIN worker_to_models_
                THEN LET models == VecRemove(worker_to_models_[worker_id], model_key)
                     IN  IF models = <<>>
                         THEN /\ worker_to_models_' = MapErase(worker_to_models_, {worker_id})
                              /\ worker_addresses_' = MapErase(worker_addresses_, {worker_id})
                         ELSE /\ worker_to_models_' = MapPut(worker_to_models_, worker_id, models)
                              /\ UNCHANGED worker_addresses_
                ELSE UNCHANGED <<worker_to_models_, worker_addresses_>>

list_models == DOMAIN model_to_worker_

list_models_by_worker(worker_id) ==
    IF worker_id \in DOMAIN worker_to_models_
    THEN worker_to_models_[worker_id] ELSE <<>>

(***************************************************************************)
(* Initial state: a freshly constructed AnyserveDispatcher (empty          *)
(* registry, no pools, no request in progress) and no Worker started.      *)
(***************************************************************************)

NoRet == [op |-> "none"]

Idle == [pc |-> "idle"]

\* Everything but the data handed to send_data.
InitRest ==
    /\ model_to_worker_ = EmptyMap
    /\ worker_to_models_ = EmptyMap
    /\ worker_addresses_ = EmptyMap
    /\ model_origin = EmptyMap
    /\ ret = NoRet
    /\ pools_ = EmptyMap
    /\ call = [c \in Calls |-> Idle]
    /\ wire = [c \in Calls |-> "none"]
    /\ worker_proc = [p \in SocketPaths |-> "down"]
    /\ mutex_ = 0
    /\ thread = [t \in Threads |-> Idle]
    /\ committed = EmptyMap
    /\ worker_pid_ = -1
    /\ read_fd_ = -1
    /\ child = [state |-> "none", killed |-> FALSE]
    /\ pipe = [bytes |-> 0, write_open |-> FALSE]
    /\ uds_file = FALSE
    /\ sup = [pc |-> "idle", i |-> 0, sent |-> <<>>, elapsed |-> 0, timeout |-> 0, n |-> 0]
    /\ proxy = [pc |-> "start", exit_code |-> 0, g_shutdown_requested |-> FALSE,
                spawned |-> FALSE]
    /\ running_ = FALSE
    /\ server_ = "null"
    /\ management_server_ = "null"
    /\ disp = [pc |-> "start", srv |-> "notstarted", mgmt |-> "notstarted",
               stopper |-> "none", exit_code |-> 0, g_ingress |-> FALSE,
               g_shutdown_requested |-> FALSE, stop_begun |-> FALSE,
               shutdown_begun |-> FALSE, bind_failed |-> FALSE]
    /\ local_capabilities_ = {}
    /\ names_dir = EmptyMap
    /\ sock = [bytes |-> <<>>, closed |-> FALSE]
    /\ xfer = [pc |-> "start"]
    /\ fleet = [r \in Replicas |-> {}]
    /\ names_files = EmptyMap
    /\ dreq = [pc |-> "none"]
    /\ replicas = EmptyMap
    /\ streams = [s \in Streams |-> [state |-> "none"]]
    /\ wc_mutex_ = 0
    /\ backlog_full = [p \in SocketPaths |-> FALSE]
    /\ fd_table = {}
    /\ held = EmptyMap
    /\ acquiring = [pc |-> "idle"]
    /\ orphans = <<>>
    /\ handle = [state |-> "alive", write_fd_ |-> -1]
    /\ core = [running_ |-> FALSE, pc |-> "idle", todo |-> {}, stops |-> 0,
               reg |-> "idle", started |-> FALSE]
    /\ shm = [o \in {"ret", "x", "y"} |-> [state |-> "none", fd |-> -1, ptr |-> "null"]]
    /\ shm_opened = 0
    /\ fd_closes = <<>>

Init ==
    /\ InitRest
    /\ payload = <<>>

(***************************************************************************)
(* The registry's public operations, called with arbitrary arguments.      *)
(***************************************************************************)

RegisterModelCall(n, v, a, w) ==
    /\ register_model(n, v, a, w)
    /\ ret' = [op |-> "register_model"]
    /\ UNCHANGED <<dispvars, othervars>>

LookupWorkerCall(n, v) ==
    /\ ret' = [op |-> "lookup_worker", value |-> lookup_worker(n, v)]
    /\ UNCHANGED regvars
    /\ UNCHANGED <<dispvars, othervars>>

UnregisterWorkerCall(w) ==
    /\ unregister_worker(w)
    /\ ret' = [op |-> "unregister_worker", value |-> unregister_worker_count(w)]
    /\ UNCHANGED <<dispvars, othervars>>

UnregisterModelCall(n, v, w) ==
    /\ unregister_model(n, v, w)
    /\ ret' = [op |-> "unregister_model", value |-> unregister_model_result(n, v)]
    /\ UNCHANGED <<dispvars, othervars>>

ListModelsCall ==
    /\ ret' = [op |-> "list_models", value |-> list_models]
    /\ UNCHANGED regvars
    /\ UNCHANGED <<dispvars, othervars>>

ListModelsByWorkerCall(w) ==
    /\ ret' = [op |-> "list_models_by_worker", value |-> list_models_by_worker(w)]
    /\ UNCHANGED regvars
    /\ UNCHANGED <<dispvars, othervars>>

RegNext ==
    \/ \E n \in RegNames, v \in RegVersions, w \in WorkerIds :
          RegisterModelCall(n, v, AddressOf(w), w)
    \/ \E n \in RegNames, v \in RegVersions : LookupWorkerCall(n, v)
    \/ \E w \in WorkerIds : UnregisterWorkerCall(w)
    \/ \E n \in RegNames, v \in RegVersions, w \in WorkerIds : UnregisterModelCall(n, v, w)
    \/ ListModelsCall
    \/ \E w \in WorkerIds : ListModelsByWorkerCall(w)

RegSpec == Init /\ [][RegNext]_vars

(***************************************************************************)
(* WorkerClient: connection pool                                           *)
(***************************************************************************)

\* A default-constructed ConnectionPool, as pools_[socket_path] creates it.
NewPool == [available |-> <<>>, in_use |-> 0]

PoolOf(socket_path) ==
    IF socket_path \in DOMAIN pools_ THEN pools_[socket_path] ELSE NewPool

\* extract_socket_path: drop a leading "unix://".
extract_socket_path(worker_address) ==
    IF \E p \in SocketPaths : worker_address = "unix://" \o p
    THEN CHOOSE p \in SocketPaths : worker_address = "unix://" \o p
    ELSE worker_address

\* Connection::Connection: connect() succeeds iff a Worker listens on the path.
ConnectOk(socket_path) ==
    socket_path \in DOMAIN worker_proc /\ worker_proc[socket_path] = "up"

\* Mutant: a new connection is opened whatever in_use is.
PoolHasRoom_NoCap(pool) == pool.in_use >= 0

\* ConnectionPool::acquire, the test that guards opening a new connection.
PoolHasRoom(pool) == pool.in_use < max_connections

\* ConnectionPool::acquire: the connection handed out ("idle" = taken from
\* available, "new" = freshly connected, "null" = nullptr) and the pool after.
acquire(pool, socket_path) ==
    IF pool.available # <<>>
    THEN [conn |-> "idle",
          pool |-> [available |-> SubSeq(pool.available, 1, Len(pool.available) - 1),
                    in_use |-> pool.in_use + 1]]
    ELSE IF PoolHasRoom(pool) /\ ConnectOk(socket_path)
         THEN [conn |-> "new", pool |-> [pool EXCEPT !.in_use = @ + 1]]
         ELSE [conn |-> "null", pool |-> pool]

\* Mutant: the released connection is kept for the next acquire.
release_Recycle(pool) ==
    [available |-> Append(pool.available, "used"),
     in_use |-> IF pool.in_use > 0 THEN pool.in_use - 1 ELSE pool.in_use]

\* ConnectionPool::release: the connection is dropped, never put back.
release(pool) ==
    [pool EXCEPT !.in_use = IF @ > 0 THEN @ - 1 ELSE @]

(***************************************************************************)
(* KServeServiceImpl::ModelInfer and WorkerClient::forward_request         *)
(*                                                                         *)
(* call[c].pc: "idle" no call yet; "forward" lookup done, forward_request  *)
(* entered; "send" connection acquired; "recv" request sent; "release"     *)
(* response parsed; "done" the call has returned.                          *)
(* call[c].log is the last line forward_request wrote to std::cerr,        *)
(* acquires / sends count the connections acquired and the request frames  *)
(* written by the call.                                                    *)
(* wire[c]: what the Worker has done on the connection the call holds:     *)
(* "none" nothing, "hdr" length header written, "ok" / "bad" a complete    *)
(* frame with a parseable / unparseable payload, "eof" closed early.       *)
(***************************************************************************)

InFlight == {"forward", "send", "recv", "release"}

Holding == {"send", "recv", "release"}

Reply(status, msg, log, acq, snd) ==
    [pc |-> "done", status |-> status, error_msg |-> msg, log |-> log,
     acquires |-> acq, sends |-> snd]

\* The NOT_FOUND status built when lookup_worker returns nullopt.
NotFoundReply(n, v) ==
    Reply("NOT_FOUND",
          "Model '" \o n \o (IF v # "" THEN ":" \o v ELSE "") \o "' not found",
          "", 0, 0)

\* The INTERNAL status built when forward_request returned false.
InternalReply(c, log, snd) ==
    Reply("INTERNAL", "Failed to forward request to worker", log,
          call[c].acquires, snd)

\* forward_request is entered with the address lookup_worker returned.
Forwarding(worker_addr) ==
    [pc |-> "forward", socket_path |-> extract_socket_path(worker_addr),
     acquires |-> 0, sends |-> 0]

\* Mutant: a request for an unknown model is forwarded to any registered
\* Worker instead of being answered NOT_FOUND.
ModelInfer_NoFastFail(c, n, v) ==
    /\ call[c].pc \in {"idle", "done"}
    /\ LET worker_addr == lookup_worker(n, v)
       IN  call' = [call EXCEPT ![c] =
                       IF worker_addr # NotFound
                       THEN Forwarding(worker_addr)
                       ELSE IF DOMAIN worker_addresses_ # {}
                            THEN Forwarding(worker_addresses_[
                                    CHOOSE w \in DOMAIN worker_addresses_ : TRUE])
                            ELSE NotFoundReply(n, v)]
    /\ UNCHANGED <<othervars, regvars, ret, pools_, wire, worker_proc>>

\* ModelInfer up to the call of forward_request: list_models (debug
\* output only), lookup_worker, and the NOT_FOUND return.
ModelInfer(c, n, v) ==
    /\ call[c].pc \in {"idle", "done"}
    /\ LET worker_addr == lookup_worker(n, v)
       IN  call' = [call EXCEPT ![c] =
                       IF worker_addr = NotFound
                       THEN NotFoundReply(n, v)
                       ELSE Forwarding(worker_addr)]
    /\ UNCHANGED <<othervars, regvars, ret, pools_, wire, worker_proc>>

\* forward_request steps 1 to 3: extract_socket_path, SerializeToString
\* (which succeeds for a request that was parsed off the wire), then
\* pools_[socket_path].acquire under mutex_.
ForwardAcquire(c) ==
    /\ call[c].pc = "forward"
    /\ LET socket_path == call[c].socket_path
           r == acquire(PoolOf(socket_path), socket_path)
       IN  /\ pools_' = MapPut(pools_, socket_path, r.pool)
           /\ call' = [call EXCEPT ![c] =
                          IF r.conn = "null"
                          THEN InternalReply(c, "Failed to acquire connection", 0)
                          ELSE [@ EXCEPT !.pc = "send", !.acquires = @ + 1]]
    /\ wire' = [wire EXCEPT ![c] = "none"]
    /\ UNCHANGED <<othervars, regvars, ret, worker_proc>>

\* Mutant: a failed send is retried on a fresh connection.
ForwardSend_Retry(c) ==
    /\ call[c].pc = "send"
    /\ IF wire[c] = "eof"
       THEN /\ call' = [call EXCEPT ![c].pc = "forward", ![c].sends = @ + 1]
            /\ wire' = [wire EXCEPT ![c] = "none"]
       ELSE /\ call' = [call EXCEPT ![c].pc = "recv", ![c].sends = @ + 1]
            /\ UNCHANGED wire
    /\ UNCHANGED <<othervars, regvars, ret, pools_, worker_proc>>

\* forward_request step 4: send_data; it fails when the peer has closed.
ForwardSend(c) ==
    /\ call[c].pc = "send"
    /\ IF wire[c] = "eof"
       THEN /\ call' = [call EXCEPT ![c] =
                           InternalReply(c, "Failed to send request", call[c].sends + 1)]
            /\ wire' = [wire EXCEPT ![c] = "none"]
       ELSE /\ call' = [call EXCEPT ![c].pc = "recv", ![c].sends = @ + 1]
            /\ UNCHANGED wire
    /\ UNCHANGED <<othervars, regvars, ret, pools_, worker_proc>>

\* forward_request steps 5 and 6: recv_data blocks until the frame is
\* complete or the peer closes; then ParseFromString.
ForwardRecv(c) ==
    /\ call[c].pc = "recv"
    /\ wire[c] \in {"ok", "bad", "eof"}
    /\ call' = [call EXCEPT ![c] =
                   CASE wire[c] = "eof" -> InternalReply(c, "Failed to receive response", call[c].sends)
                     [] wire[c] = "bad" -> InternalReply(c, "Failed to parse response", call[c].sends)
                     [] wire[c] = "ok"  -> [@ EXCEPT !.pc = "release"]]
    /\ wire' = [wire EXCEPT ![c] = IF wire[c] = "ok" THEN "ok" ELSE "none"]
    /\ UNCHANGED <<othervars, regvars, ret, pools_, worker_proc>>

\* forward_request step 7: pools_[socket_path].release under mutex_, then
\* ModelInfer returns OK.
ForwardRelease(c) ==
    /\ call[c].pc = "release"
    /\ pools_' = MapPut(pools_, call[c].socket_path, release(PoolOf(call[c].socket_path)))
    /\ call' = [call EXCEPT ![c] =
                   Reply("OK", "", "", call[c].acquires, call[c].sends)]
    /\ wire' = [wire EXCEPT ![c] = "none"]
    /\ UNCHANGED <<othervars, regvars, ret, worker_proc>>

(***************************************************************************)
(* WorkerManagementServiceImpl                                             *)
(***************************************************************************)

RegisterModel(n, v, a, w) ==
    /\ register_model(n, v, a, w)
    /\ ret' = [op |-> "RegisterModel", success |-> TRUE,
               message |-> "Model registered successfully"]
    /\ UNCHANGED <<dispvars, othervars>>

UnregisterModel(n, v, w) ==
    /\ unregister_model(n, v, w)
    /\ ret' = [op |-> "UnregisterModel", success |-> unregister_model_result(n, v),
               message |-> IF unregister_model_result(n, v)
                           THEN "Model unregistered successfully"
                           ELSE "Model not found"]
    /\ UNCHANGED <<dispvars, othervars>>

(***************************************************************************)
(* The Worker processes (environment).  A Worker binds its socket, then    *)
(* registers and unregisters models through the management port, answers   *)
(* the connections it accepts as it likes, and may exit at any time.  No   *)
(* code of the Dispatcher runs when a Worker exits.                        *)
(***************************************************************************)

\* The Workers that run next to the Dispatcher.
LocalWorkers == {"w1"}

ConnectedTo(socket_path) ==
    {c \in Calls : call[c].pc \in Holding /\ call[c].socket_path = socket_path}

WorkerStart(w) ==
    /\ worker_proc[SocketPathOf(w)] = "down"
    /\ worker_proc' = [worker_proc EXCEPT ![SocketPathOf(w)] = "up"]
    /\ UNCHANGED <<othervars, regvars, ret, pools_, call, wire>>

WorkerRegisters(w, n, v) ==
    /\ worker_proc[SocketPathOf(w)] = "up"
    /\ RegisterModel(n, v, AddressOf(w), w)

WorkerUnregisters(w, n, v) ==
    /\ worker_proc[SocketPathOf(w)] = "up"
    /\ UnregisterModel(n, v, w)

\* The Worker writes the 4-byte length of its response.
WorkerSendsHeader(c) ==
    /\ call[c].pc = "recv"
    /\ wire[c] = "none"
    /\ wire' = [wire EXCEPT ![c] = "hdr"]
    /\ UNCHANGED <<othervars, regvars, ret, pools_, call, worker_proc>>

\* The Worker writes the payload: a serialized response, or other bytes.
WorkerSendsBody(c, parseable) ==
    /\ call[c].pc = "recv"
    /\ wire[c] = "hdr"
    /\ wire' = [wire EXCEPT ![c] = IF parseable THEN "ok" ELSE "bad"]
    /\ UNCHANGED <<othervars, regvars, ret, pools_, call, worker_proc>>

\* The Worker closes the connection before the frame is complete.
WorkerCloses(c) ==
    /\ call[c].pc \in {"send", "recv"}
    /\ wire[c] \in {"none", "hdr"}
    /\ wire' = [wire EXCEPT ![c] = "eof"]
    /\ UNCHANGED <<othervars, regvars, ret, pools_, call, worker_proc>>

\* The Worker process exits (crash or kill): its sockets are closed by the
\* kernel, its registrations are left as they are.
WorkerExits(w) ==
    /\ worker_proc[SocketPathOf(w)] = "up"
    /\ worker_proc' = [worker_proc EXCEPT ![SocketPathOf(w)] = "exited"]
    /\ wire' = [c \in Calls |->
                   IF /\ c \in ConnectedTo(SocketPathOf(w))
                      /\ call[c].pc \in {"send", "recv"}
                      /\ wire[c] \in {"none", "hdr"}
                   THEN "eof" ELSE wire[c]]
    /\ UNCHANGED <<othervars, regvars, ret, pools_, call>>

(***************************************************************************)
(* The running Dispatcher                                                  *)
(***************************************************************************)

Next ==
    \/ \E c \in Calls, n \in ModelNames, v \in ModelVersions : ModelInfer(c, n, v)
    \/ \E c \in Calls : ForwardAcquire(c)
    \/ \E c \in Calls : ForwardSend(c)
    \/ \E c \in Calls : ForwardRecv(c)
    \/ \E c \in Calls : ForwardRelease(c)
    \/ \E w \in LocalWorkers : WorkerStart(w)
    \/ \E w \in LocalWorkers, n \in ModelNames, v \in ModelVersions : WorkerRegisters(w, n, v)
    \/ \E w \in LocalWorkers, n \in ModelNames, v \in ModelVersions : WorkerUnregisters(w, n, v)
    \/ \E c \in Calls : WorkerSendsHeader(c)
    \/ \E c \in Calls, parseable \in BOOLEAN : WorkerSendsBody(c, parseable)
    \/ \E c \in Calls : WorkerCloses(c)
    \/ \E w \in LocalWorkers : WorkerExits(w)

Spec == Init /\ [][Next]_vars

\* The gRPC handler threads keep running: a forward_request that can take
\* its next step takes it.  Clients and Workers are under no obligation.
Fairness ==
    \A c \in Calls :
       /\ WF_vars(ForwardAcquire(c))
       /\ WF_vars(ForwardSend(c))
       /\ WF_vars(ForwardRecv(c))
       /\ WF_vars(ForwardRelease(c))

FairSpec == Spec /\ Fairness

\* The registry driven by register_model and unregister_worker only (and
\* the read-only operations).
RegNextRW ==
    \/ \E n \in RegNames, v \in RegVersions, w \in WorkerIds :
          RegisterModelCall(n, v, AddressOf(w), w)
    \/ \E w \in WorkerIds : UnregisterWorkerCall(w)
    \/ \E n \in RegNames, v \in RegVersions : LookupWorkerCall(n, v)
    \/ ListModelsCall
    \/ \E w \in WorkerIds : ListModelsByWorkerCall(w)

RegSpecRW == Init /\ [][RegNextRW]_vars

(***************************************************************************)
(* The registry under concurrent callers.  Every public operation of       *)
(* ModelRegistry opens with std::lock_guard<std::mutex> lock(mutex_) and    *)
(* runs to its return under that lock; the steps below are the memory      *)
(* effects of an operation in program order.                               *)
(*                                                                         *)
(* thread[t].pc: "idle" not in the registry; "lock" called, waiting for    *)
(* mutex_; "cs" holding mutex_.  thread[t].seen, kept for lookup_worker    *)
(* and list_models, is the set of results the call would have returned     *)
(* had it run alone on the forward index as it stood at the call or after  *)
(* a later writer's unlock.                                                *)
(***************************************************************************)

ReadOps == {"lookup_worker", "list_models"}

concothers == <<dispvars, supvars, lifevars, corevars, framevars, clustervars>>

\* Mutant: the operation enters without waiting for the mutex.
lock_NoExclusion(t) == mutex_' = t

\* std::lock_guard<std::mutex> lock(mutex_)
lock(t) == mutex_ = 0 /\ mutex_' = t

\* ~lock_guard at the return of the operation
unlock == mutex_' = 0

\* lookup_worker evaluated on a forward index given as an argument.
lookup_in(index, model_name, model_version) ==
    LET model_key == make_model_key(model_name, model_version)
        fallback_key == make_model_key(model_name, "")
    IN  IF model_key \in DOMAIN index THEN index[model_key]
        ELSE IF model_version # "" /\ fallback_key \in DOMAIN index
             THEN index[fallback_key]
             ELSE NotFound

\* What the read call of th returns when it runs alone on forward index m.
AtomicResult(m, th) ==
    IF th.op = "list_models" THEN DOMAIN m
    ELSE lookup_in(m, th.model_name, th.model_version)

\* Thread t returns from a writing operation that left forward index m:
\* the reads in progress may from now on observe m.
WriterReturns(t, m) ==
    [u \in Threads |->
        IF u = t THEN Idle
        ELSE IF thread[u].pc # "idle" /\ thread[u].op \in ReadOps
             THEN [thread[u] EXCEPT !.seen = @ \cup {AtomicResult(m, thread[u])}]
             ELSE thread[u]]

CallRegisterModel(t, n, v, w) ==
    /\ thread[t].pc = "idle"
    /\ thread' = [thread EXCEPT ![t] =
                     [pc |-> "lock", op |-> "register_model", model_name |-> n,
                      model_version |-> v, worker_id |-> w]]
    /\ UNCHANGED <<regvars, ret, mutex_, committed, concothers>>

CallUnregisterWorker(t, w) ==
    /\ thread[t].pc = "idle"
    /\ thread' = [thread EXCEPT ![t] =
                     [pc |-> "lock", op |-> "unregister_worker", worker_id |-> w]]
    /\ UNCHANGED <<regvars, ret, mutex_, committed, concothers>>

CallLookupWorker(t, n, v) ==
    /\ thread[t].pc = "idle"
    /\ thread' = [thread EXCEPT ![t] =
                     [pc |-> "lock", op |-> "lookup_worker", model_name |-> n,
                      model_version |-> v, seen |-> {lookup_in(committed, n, v)}]]
    /\ UNCHANGED <<regvars, ret, mutex_, committed, concothers>>

CallListModels(t) ==
    /\ thread[t].pc = "idle"
    /\ thread' = [thread EXCEPT ![t] =
                     [pc |-> "lock", op |-> "list_models", seen |-> {DOMAIN committed}]]
    /\ UNCHANGED <<regvars, ret, mutex_, committed, concothers>>

\* register_model: lock, then model_to_worker_[model_key] = worker_address.
RegisterModelEnter(t) ==
    /\ thread[t].pc = "lock" /\ thread[t].op = "register_model"
    /\ lock(t)
    /\ LET model_key == make_model_key(thread[t].model_name, thread[t].model_version)
       IN  /\ model_to_worker_' =
                 MapPut(model_to_worker_, model_key, AddressOf(thread[t].worker_id))
           /\ model_origin' =
                 MapPut(model_origin, model_key,
                        [name |-> thread[t].model_name,
                         version |-> thread[t].model_version,
                         worker_id |-> thread[t].worker_id])
    /\ thread' = [thread EXCEPT ![t].pc = "cs"]
    /\ UNCHANGED <<worker_to_models_, worker_addresses_, ret, committed, concothers>>

\* register_model: the reverse vector, the address cache, return.
RegisterModelLeave(t) ==
    /\ thread[t].pc = "cs" /\ thread[t].op = "register_model"
    /\ LET worker_id == thread[t].worker_id
           model_key == make_model_key(thread[t].model_name, thread[t].model_version)
           models == IF worker_id \in DOMAIN worker_to_models_
                     THEN worker_to_models_[worker_id] ELSE <<>>
       IN  /\ worker_to_models_' =
                 MapPut(worker_to_models_, worker_id,
                        IF model_key \in SeqRange(models) THEN models
                        ELSE Append(models, model_key))
           /\ worker_addresses_' =
                 MapPut(worker_addresses_, worker_id, AddressOf(worker_id))
    /\ unlock
    /\ committed' = model_to_worker_
    /\ thread' = WriterReturns(t, model_to_worker_)
    /\ ret' = [op |-> "register_model"]
    /\ UNCHANGED <<model_to_worker_, model_origin, concothers>>

\* unregister_worker: lock, count = 0, worker_to_models_.find(worker_id).
UnregisterWorkerEnter(t) ==
    /\ thread[t].pc = "lock" /\ thread[t].op = "unregister_worker"
    /\ lock(t)
    /\ thread' = [thread EXCEPT ![t] =
                     [pc |-> "cs", op |-> "unregister_worker",
                      worker_id |-> thread[t].worker_id,
                      pending |-> list_models_by_worker(thread[t].worker_id),
                      count |-> 0]]
    /\ UNCHANGED <<regvars, ret, committed, concothers>>

\* unregister_worker: one turn of the loop over the worker's vector.
UnregisterWorkerErase(t) ==
    /\ thread[t].pc = "cs" /\ thread[t].op = "unregister_worker"
    /\ thread[t].pending # <<>>
    /\ model_to_worker_' = MapErase(model_to_worker_, {Head(thread[t].pending)})
    /\ model_origin' = MapErase(model_origin, {Head(thread[t].pending)})
    /\ thread' = [thread EXCEPT ![t].pending = Tail(@), ![t].count = @ + 1]
    /\ UNCHANGED <<worker_to_models_, worker_addresses_, ret, mutex_, committed,
                   concothers>>

\* unregister_worker: erase the reverse vector and the cached address,
\* return count.
UnregisterWorkerLeave(t) ==
    /\ thread[t].pc = "cs" /\ thread[t].op = "unregister_worker"
    /\ thread[t].pending = <<>>
    /\ worker_to_models_' = MapErase(worker_to_models_, {thread[t].worker_id})
    /\ worker_addresses_' = MapErase(worker_addresses_, {thread[t].worker_id})
    /\ unlock
    /\ committed' = model_to_worker_
    /\ thread' = WriterReturns(t, model_to_worker_)
    /\ ret' = [op |-> "unregister_worker", value |-> thread[t].count]
    /\ UNCHANGED <<model_to_worker_, model_origin, concothers>>

\* lookup_worker and list_models: lock.
ReadEnter(t) ==
    /\ thread[t].pc = "lock" /\ thread[t].op \in ReadOps
    /\ lock(t)
    /\ thread' = [thread EXCEPT ![t].pc = "cs"]
    /\ UNCHANGED <<regvars, ret, committed, concothers>>

\* lookup_worker: the two finds and the return.
LookupWorkerLeave(t) ==
    /\ thread[t].pc = "cs" /\ thread[t].op = "lookup_worker"
    /\ ret' = [op |-> "lookup_worker",
               value |-> lookup_worker(thread[t].model_name, thread[t].model_version)]
    /\ unlock
    /\ thread' = [thread EXCEPT ![t] = Idle]
    /\ UNCHANGED <<regvars, committed, concothers>>

\* list_models: copy the keys of model_to_worker_, return.
ListModelsLeave(t) ==
    /\ thread[t].pc = "cs" /\ thread[t].op = "list_models"
    /\ ret' = [op |-> "list_models", value |-> list_models]
    /\ unlock
    /\ thread' = [thread EXCEPT ![t] = Idle]
    /\ UNCHANGED <<regvars, committed, concothers>>

ConcNext ==
    \/ \E t \in Threads, n \in ModelNames, v \in ModelVersions, w \in LocalWorkers :
          CallRegisterModel(t, n, v, w)
    \/ \E t \in Threads, w \in LocalWorkers : CallUnregisterWorker(t, w)
    \/ \E t \in Threads, n \in ModelNames, v \in ModelVersions : CallLookupWorker(t, n, v)
    \/ \E t \in Threads : CallListModels(t)
    \/ \E t \in Threads : RegisterModelEnter(t)
    \/ \E t \in Threads : RegisterModelLeave(t)
    \/ \E t \in Threads : UnregisterWorkerEnter(t)
    \/ \E t \in Threads : UnregisterWorkerErase(t)
    \/ \E t \in Threads : UnregisterWorkerLeave(t)
    \/ \E t \in Threads : ReadEnter(t)
    \/ \E t \in Threads : LookupWorkerLeave(t)
    \/ \E t \in Threads : ListModelsLeave(t)

ConcSpec == Init /\ [][ConcNext]_vars

(***************************************************************************)
(* ProcessSupervisor (cpp/server/process_supervisor.cpp) and the child it  *)
(* forks.                                                                  *)
(*                                                                         *)
(* child.state: "none" no fork yet; "forked" the child branch of spawn     *)
(* before execvp; "running" the Python Worker; "zombie" exited, not yet    *)
(* waited for; "reaped" waited for.  child.killed: a SIGKILL is pending.   *)
(* pipe: the readiness pipe: bytes not yet read, and whether the child     *)
(* still holds the write end.  uds_file: the socket file at uds_path       *)
(* exists.                                                                 *)
(* sup: the thread that is inside a supervisor operation: pc "idle" (in no *)
(* operation), "poll" (wait_for_ready, in poll), "stop_poll" (stop, in the *)
(* loop), "stop_wait" (stop, in the blocking waitpid); i is the loop       *)
(* counter of stop, sent the signals stop has sent, elapsed the seconds    *)
(* spent in poll, n what read() returned.                                  *)
(***************************************************************************)

WorkerPid == 1

ReadFd == 3

supothers == <<regvars, dispvars, concvars, lifevars, corevars, framevars, clustervars>>

\* waitpid(worker_pid_, &status, WNOHANG)
waitpid_nohang ==
    CASE child.state = "zombie" -> worker_pid_
      [] child.state \in {"forked", "running"} -> 0
      [] OTHER -> -1

\* spawn, parent side: pipe(), fork(), worker_pid_ = pid, close(write_fd_).
spawn ==
    /\ child.state = "none"
    /\ child' = [state |-> "forked", killed |-> FALSE]
    /\ pipe' = [bytes |-> 0, write_open |-> TRUE]
    /\ worker_pid_' = WorkerPid
    /\ read_fd_' = ReadFd
    /\ UNCHANGED <<uds_file, sup, ret>>

\* wait_for_ready up to the poll call.
wait_for_ready_enter(timeout_seconds) ==
    IF read_fd_ < 0
    THEN /\ ret' = [op |-> "wait_for_ready", value |-> FALSE]
         /\ sup' = [sup EXCEPT !.elapsed = 0, !.timeout = timeout_seconds, !.n = 0]
         /\ UNCHANGED <<worker_pid_, read_fd_, child, pipe, uds_file>>
    ELSE /\ sup' = [sup EXCEPT !.pc = "poll", !.elapsed = 0,
                               !.timeout = timeout_seconds, !.n = 0]
         /\ UNCHANGED <<worker_pid_, read_fd_, child, pipe, uds_file, ret>>

\* poll has an event to report: POLLIN (bytes to read) or POLLHUP (the
\* write end is closed).
PollEvent == pipe.bytes > 0 \/ ~pipe.write_open

\* One second passes while poll blocks.
WaitTick ==
    /\ sup.pc = "poll"
    /\ ~PollEvent
    /\ sup.elapsed < sup.timeout
    /\ sup' = [sup EXCEPT !.elapsed = @ + 1]
    /\ UNCHANGED <<worker_pid_, read_fd_, child, pipe, uds_file, proxy, ret, supothers>>

\* Mutant: a hang-up of the pipe counts as the readiness signal.
WaitPollReturns_TrueOnHangup ==
    /\ sup.pc = "poll"
    /\ PollEvent
    /\ sup' = [sup EXCEPT !.pc = "idle", !.n = pipe.bytes]
    /\ pipe' = [pipe EXCEPT !.bytes = 0]
    /\ ret' = [op |-> "wait_for_ready", value |-> TRUE]
    /\ UNCHANGED <<worker_pid_, read_fd_, child, uds_file, proxy, supothers>>

\* poll returned > 0: with POLLIN, read(); true when n > 0.
WaitPollReturns ==
    /\ sup.pc = "poll"
    /\ PollEvent
    /\ sup' = [sup EXCEPT !.pc = "idle", !.n = pipe.bytes]
    /\ pipe' = [pipe EXCEPT !.bytes = 0]
    /\ ret' = [op |-> "wait_for_ready", value |-> pipe.bytes > 0]
    /\ UNCHANGED <<worker_pid_, read_fd_, child, uds_file, proxy, supothers>>

\* poll returned 0: the timeout has expired.
WaitPollTimeout ==
    /\ sup.pc = "poll"
    /\ ~PollEvent
    /\ sup.elapsed = sup.timeout
    /\ sup' = [sup EXCEPT !.pc = "idle"]
    /\ ret' = [op |-> "wait_for_ready", value |-> FALSE]
    /\ UNCHANGED <<worker_pid_, read_fd_, child, pipe, uds_file, proxy, supothers>>

\* poll returned < 0 (EINTR: a signal handler ran).
WaitPollError ==
    /\ sup.pc = "poll"
    /\ sup' = [sup EXCEPT !.pc = "idle"]
    /\ ret' = [op |-> "wait_for_ready", value |-> FALSE]
    /\ UNCHANGED <<worker_pid_, read_fd_, child, pipe, uds_file, proxy, supothers>>

\* stop up to the loop: kill(worker_pid_, SIGTERM) when there is a pid.
stop_enter ==
    IF worker_pid_ > 0
    THEN /\ sup' = [sup EXCEPT !.pc = "stop_poll", !.i = 0, !.sent = <<"SIGTERM">>]
         /\ UNCHANGED <<worker_pid_, read_fd_, child, pipe, uds_file, ret>>
    ELSE /\ sup' = [sup EXCEPT !.i = 0, !.sent = <<>>]
         /\ ret' = [op |-> "stop"]
         /\ UNCHANGED <<worker_pid_, read_fd_, child, pipe, uds_file>>

\* Mutant: the loop returns on the child's exit without clearing the pid.
StopPoll_KeepsPid ==
    /\ sup.pc = "stop_poll"
    /\ sup.i < StopPolls
    /\ IF waitpid_nohang = worker_pid_
       THEN /\ child' = [child EXCEPT !.state = "reaped"]
            /\ UNCHANGED worker_pid_
            /\ sup' = [sup EXCEPT !.pc = "idle"]
            /\ ret' = [op |-> "stop"]
       ELSE /\ sup' = [sup EXCEPT !.i = @ + 1]
            /\ UNCHANGED <<child, worker_pid_, ret>>
    /\ UNCHANGED <<read_fd_, pipe, uds_file, proxy, supothers>>

\* stop, one turn of the loop: waitpid(WNOHANG); on the child's exit
\* worker_pid_ = -1 and return, else usleep(100 ms).
StopPoll ==
    /\ sup.pc = "stop_poll"
    /\ sup.i < StopPolls
    /\ IF waitpid_nohang = worker_pid_
       THEN /\ child' = [child EXCEPT !.state = "reaped"]
            /\ worker_pid_' = -1
            /\ sup' = [sup EXCEPT !.pc = "idle"]
            /\ ret' = [op |-> "stop"]
       ELSE /\ sup' = [sup EXCEPT !.i = @ + 1]
            /\ UNCHANGED <<child, worker_pid_, ret>>
    /\ UNCHANGED <<read_fd_, pipe, uds_file, proxy, supothers>>

\* stop, after the loop: kill(worker_pid_, SIGKILL).
StopKill ==
    /\ sup.pc = "stop_poll"
    /\ sup.i = StopPolls
    /\ sup' = [sup EXCEPT !.pc = "stop_wait", !.sent = Append(@, "SIGKILL")]
    /\ child' = [child EXCEPT !.killed = child.state \in {"forked", "running"}]
    /\ UNCHANGED <<worker_pid_, read_fd_, pipe, uds_file, proxy, ret, supothers>>

\* stop, waitpid(worker_pid_, nullptr, 0): returns when the child is dead
\* (reaping it) or at once when there is no such child; worker_pid_ = -1.
StopWait ==
    /\ sup.pc = "stop_wait"
    /\ child.state \notin {"forked", "running"}
    /\ child' = [child EXCEPT !.state = IF @ = "zombie" THEN "reaped" ELSE @]
    /\ worker_pid_' = -1
    /\ sup' = [sup EXCEPT !.pc = "idle"]
    /\ ret' = [op |-> "stop"]
    /\ UNCHANGED <<read_fd_, pipe, uds_file, proxy, supothers>>

\* Mutant: every result of waitpid but the pid itself counts as alive, so
\* the ECHILD answer for a child already waited for reads as alive.
is_alive_UnlessReapedNow ==
    /\ ret' = [op |-> "is_alive",
               value |-> worker_pid_ > 0 /\ waitpid_nohang # worker_pid_]
    /\ child' = [child EXCEPT !.state =
                    IF worker_pid_ > 0 /\ @ = "zombie" THEN "reaped" ELSE @]
    /\ UNCHANGED <<worker_pid_, read_fd_, pipe, uds_file, sup>>

\* is_alive: false without a pid, else waitpid(WNOHANG) == 0; a zombie is
\* reaped by the call and worker_pid_ is left as it is.
is_alive ==
    /\ ret' = [op |-> "is_alive", value |-> worker_pid_ > 0 /\ waitpid_nohang = 0]
    /\ child' = [child EXCEPT !.state =
                    IF worker_pid_ > 0 /\ @ = "zombie" THEN "reaped" ELSE @]
    /\ UNCHANGED <<worker_pid_, read_fd_, pipe, uds_file, sup>>

(***************************************************************************)
(* The child process (environment)                                         *)
(***************************************************************************)

\* execvp succeeds: the child is the Python Worker.
ChildExec ==
    /\ child.state = "forked"
    /\ child' = [child EXCEPT !.state = "running"]
    /\ UNCHANGED <<worker_pid_, read_fd_, pipe, uds_file, sup, proxy, ret, supothers>>

\* The Worker binds its socket at ANSERVE_WORKER_UDS.
ChildBinds ==
    /\ child.state = "running"
    /\ ~uds_file
    /\ uds_file' = TRUE
    /\ UNCHANGED <<worker_pid_, read_fd_, child, pipe, sup, proxy, ret, supothers>>

\* The Worker writes to ANSERVE_READY_FD.
ChildSignalsReady ==
    /\ child.state = "running"
    /\ pipe.bytes = 0
    /\ pipe' = [pipe EXCEPT !.bytes = 1]
    /\ UNCHANGED <<worker_pid_, read_fd_, child, uds_file, sup, proxy, ret, supothers>>

\* The child exits by itself: _exit(1) after a failed execvp, a crash, or
\* the Worker's reaction to SIGTERM; a Worker may unlink its socket file on
\* the way out.
ChildExits(unlinks) ==
    /\ child.state \in {"forked", "running"}
    /\ child' = [child EXCEPT !.state = "zombie"]
    /\ pipe' = [pipe EXCEPT !.write_open = FALSE]
    /\ uds_file' = IF unlinks /\ child.state = "running" THEN FALSE ELSE uds_file
    /\ UNCHANGED <<worker_pid_, read_fd_, sup, proxy, ret, supothers>>

\* The kernel delivers a pending SIGKILL.
ChildKilled ==
    /\ child.state \in {"forked", "running"}
    /\ child.killed
    /\ child' = [child EXCEPT !.state = "zombie"]
    /\ pipe' = [pipe EXCEPT !.write_open = FALSE]
    /\ UNCHANGED <<worker_pid_, read_fd_, uds_file, sup, proxy, ret, supothers>>

(***************************************************************************)
(* A ProcessSupervisor called by its owner in any order.                   *)
(***************************************************************************)

CallSpawn ==
    /\ sup.pc = "idle"
    /\ spawn
    /\ UNCHANGED <<proxy, supothers>>

CallWaitForReady(timeout_seconds) ==
    /\ sup.pc = "idle"
    /\ wait_for_ready_enter(timeout_seconds)
    /\ UNCHANGED <<proxy, supothers>>

CallStop ==
    /\ sup.pc = "idle"
    /\ stop_enter
    /\ UNCHANGED <<proxy, supothers>>

CallIsAlive ==
    /\ sup.pc = "idle"
    /\ is_alive
    /\ UNCHANGED <<proxy, supothers>>

SupNext ==
    \/ CallSpawn
    \/ \E t \in Timeouts : CallWaitForReady(t)
    \/ CallStop
    \/ CallIsAlive
    \/ WaitTick
    \/ WaitPollReturns
    \/ WaitPollTimeout
    \/ WaitPollError
    \/ StopPoll
    \/ StopKill
    \/ StopWait
    \/ ChildExec
    \/ ChildBinds
    \/ ChildSignalsReady
    \/ \E unlinks \in BOOLEAN : ChildExits(unlinks)
    \/ ChildKilled

SupSpec == Init /\ [][SupNext]_vars

\* The thread inside stop() keeps running, and a SIGKILL is delivered.
SupFairness ==
    /\ WF_vars(StopPoll)
    /\ WF_vars(StopKill)
    /\ WF_vars(StopWait)
    /\ WF_vars(ChildKilled)

FairSupSpec == SupSpec /\ SupFairness

(***************************************************************************)
(* main of the proxy (main.cpp): spawn, wait_for_ready(10), connect to the *)
(* Worker, start the gRPC server, watch the Worker, clean up.  proxy.pc is *)
(* the position of main; the supervisor is destroyed when main leaves the  *)
(* try block, by return or by exception.                                   *)
(***************************************************************************)

\* A return or a throw from inside the try block: ~ProcessSupervisor runs.
Leave(code) == [proxy EXCEPT !.pc = "unwind", !.exit_code = code]

ProxySpawn ==
    /\ proxy.pc = "start"
    /\ spawn
    /\ proxy' = [proxy EXCEPT !.pc = "spawned", !.spawned = TRUE]
    /\ UNCHANGED supothers

ProxyWaitForReady ==
    /\ proxy.pc = "spawned"
    /\ wait_for_ready_enter(ReadyTimeout)
    /\ proxy' = [proxy EXCEPT !.pc = "waiting"]
    /\ UNCHANGED supothers

\* if (!supervisor.wait_for_ready(10)) return 1;
ProxyReady ==
    /\ proxy.pc = "waiting"
    /\ sup.pc = "idle"
    /\ proxy' = IF ret.value THEN [proxy EXCEPT !.pc = "connect"] ELSE Leave(1)
    /\ UNCHANGED <<worker_pid_, read_fd_, child, pipe, uds_file, sup, ret, supothers>>

\* channel->WaitForConnected(deadline): can succeed only when the Worker
\* listens on the socket; return 1 when it fails.
ProxyConnect(connected) ==
    /\ proxy.pc = "connect"
    /\ connected => (child.state = "running" /\ uds_file)
    /\ proxy' = IF connected THEN [proxy EXCEPT !.pc = "build"] ELSE Leave(1)
    /\ UNCHANGED <<worker_pid_, read_fd_, child, pipe, uds_file, sup, ret, supothers>>

\* builder.BuildAndStart(): return 1 when the port cannot be bound.
ProxyBuild(started) ==
    /\ proxy.pc = "build"
    /\ proxy' = IF started THEN [proxy EXCEPT !.pc = "loop"] ELSE Leave(1)
    /\ UNCHANGED <<worker_pid_, read_fd_, child, pipe, uds_file, sup, ret, supothers>>

\* signal_handler: g_shutdown_requested = true.
ProxySignal ==
    /\ proxy.pc # "exited"
    /\ ~proxy.g_shutdown_requested
    /\ proxy' = [proxy EXCEPT !.g_shutdown_requested = TRUE]
    /\ UNCHANGED <<worker_pid_, read_fd_, child, pipe, uds_file, sup, ret, supothers>>

\* The main loop: leave on g_shutdown_requested or when is_alive() is false.
ProxyLoop ==
    /\ proxy.pc = "loop"
    /\ IF proxy.g_shutdown_requested
       THEN /\ proxy' = [proxy EXCEPT !.pc = "cleanup"]
            /\ UNCHANGED <<worker_pid_, read_fd_, child, pipe, uds_file, sup, ret>>
       ELSE /\ is_alive
            /\ proxy' = [proxy EXCEPT !.pc =
                            IF worker_pid_ > 0 /\ waitpid_nohang = 0
                            THEN "loop" ELSE "cleanup"]
    /\ UNCHANGED supothers

\* server->Shutdown(); supervisor.stop();
ProxyCleanup ==
    /\ proxy.pc = "cleanup"
    /\ stop_enter
    /\ proxy' = [proxy EXCEPT !.pc = "stopping"]
    /\ UNCHANGED supothers

\* std::remove(uds_path.c_str()); return 0;
ProxyRemove ==
    /\ proxy.pc = "stopping"
    /\ sup.pc = "idle"
    /\ uds_file' = FALSE
    /\ proxy' = Leave(0)
    /\ UNCHANGED <<worker_pid_, read_fd_, child, pipe, sup, ret, supothers>>

\* ~ProcessSupervisor: stop(); ...
ProxyDestroy ==
    /\ proxy.pc = "unwind"
    /\ stop_enter
    /\ proxy' = [proxy EXCEPT !.pc = "destroying"]
    /\ UNCHANGED supothers

\* ... close_fd(read_fd_); main has returned.
ProxyExit ==
    /\ proxy.pc = "destroying"
    /\ sup.pc = "idle"
    /\ read_fd_' = -1
    /\ proxy' = [proxy EXCEPT !.pc = "exited"]
    /\ UNCHANGED <<worker_pid_, child, pipe, uds_file, sup, ret, supothers>>

ProxyNext ==
    \/ ProxySpawn
    \/ ProxyWaitForReady
    \/ ProxyReady
    \/ \E connected \in BOOLEAN : ProxyConnect(connected)
    \/ \E started \in BOOLEAN : ProxyBuild(started)
    \/ ProxySignal
    \/ ProxyLoop
    \/ ProxyCleanup
    \/ ProxyRemove
    \/ ProxyDestroy
    \/ ProxyExit
    \/ WaitTick
    \/ WaitPollReturns
    \/ WaitPollTimeout
    \/ WaitPollError
    \/ StopPoll
    \/ StopKill
    \/ StopWait
    \/ ChildExec
    \/ ChildBinds
    \/ ChildSignalsReady
    \/ \E unlinks \in BOOLEAN : ChildExits(unlinks)
    \/ ChildKilled

ProxySpec == Init /\ [][ProxyNext]_vars

(***************************************************************************)
(* Life cycle of the Dispatcher process (main_v2.cpp and                   *)
(* AnyserveDispatcher::run / stop / run_server / run_management_server).   *)
(*                                                                         *)
(* disp.pc, the main thread: "start" signal handlers installed;            *)
(* "constructed" ingress constructed and g_ingress set; "running" inside   *)
(* run(), both threads started; "joined" run() has returned; "exited".     *)
(* disp.srv / disp.mgmt, the two server threads: "notstarted", "build"     *)
(* (before BuildAndStart), "wait" (in Wait), "returned".                   *)
(* disp.stopper, the call of stop() made by signal_handler: "none",        *)
(* "server" (before if (server_)), "server_wait" (in server_->Shutdown()), *)
(* "management" (before if (management_server_)).                          *)
(* server_ / management_server_: "null", "serving" or "shutdown".          *)
(* History: disp.stop_begun (stop() has been called), disp.shutdown_begun  *)
(* (a stop() found running_ true), disp.bind_failed (a BuildAndStart       *)
(* returned null).                                                         *)
(***************************************************************************)

\* The handler thread followed through start-up and shutdown.
LifeCalls == {1}

lifeothers == <<concvars, supvars, corevars, framevars, clustervars>>

\* ModelInfer handlers that have not returned yet.
HandlersInFlight == {c \in Calls : call[c].pc \in InFlight}

\* main: AnyserveDispatcher ingress(port, management_port); g_ingress = &ingress.
MainConstruct ==
    /\ disp.pc = "start"
    /\ disp' = [disp EXCEPT !.pc = "constructed", !.g_ingress = TRUE]
    /\ UNCHANGED <<regvars, ret, dispvars, running_, server_, management_server_, lifeothers>>

\* run(): running_.store(true) and the two std::thread constructions.
Run ==
    /\ disp.pc = "constructed"
    /\ running_' = TRUE
    /\ disp' = [disp EXCEPT !.pc = "running", !.srv = "build", !.mgmt = "build"]
    /\ UNCHANGED <<regvars, ret, dispvars, server_, management_server_, lifeothers>>

\* run_server: server_ = builder.BuildAndStart(); on nullptr the thread
\* prints the "listening" line and returns, otherwise it enters Wait().
RunServerBuild(bound) ==
    /\ disp.srv = "build"
    /\ server_' = IF bound THEN "serving" ELSE "null"
    /\ disp' = [disp EXCEPT !.srv = IF bound THEN "wait" ELSE "returned",
                            !.bind_failed = @ \/ ~bound]
    /\ UNCHANGED <<regvars, ret, dispvars, running_, management_server_, lifeothers>>

\* run_server: server_->Wait() returns once the server has been shut down
\* and its handlers have returned.
RunServerReturns ==
    /\ disp.srv = "wait"
    /\ server_ = "shutdown"
    /\ HandlersInFlight = {}
    /\ disp' = [disp EXCEPT !.srv = "returned"]
    /\ UNCHANGED <<regvars, ret, dispvars, running_, server_, management_server_, lifeothers>>

\* run_management_server: the same for management_server_.
RunManagementBuild(bound) ==
    /\ disp.mgmt = "build"
    /\ management_server_' = IF bound THEN "serving" ELSE "null"
    /\ disp' = [disp EXCEPT !.mgmt = IF bound THEN "wait" ELSE "returned",
                            !.bind_failed = @ \/ ~bound]
    /\ UNCHANGED <<regvars, ret, dispvars, running_, server_, lifeothers>>

RunManagementReturns ==
    /\ disp.mgmt = "wait"
    /\ management_server_ = "shutdown"
    /\ disp' = [disp EXCEPT !.mgmt = "returned"]
    /\ UNCHANGED <<regvars, ret, dispvars, running_, server_, management_server_, lifeothers>>

\* run(): both joins have returned.
RunReturns ==
    /\ disp.pc = "running"
    /\ disp.srv = "returned"
    /\ disp.mgmt = "returned"
    /\ disp' = [disp EXCEPT !.pc = "joined"]
    /\ UNCHANGED <<regvars, ret, dispvars, running_, server_, management_server_, lifeothers>>

\* main: "Dispatcher stopped", return 0; ~AnyserveDispatcher calls stop(),
\* which finds both servers null or shut down.
MainReturns ==
    /\ disp.pc = "joined"
    /\ disp.stopper = "none"
    /\ running_' = FALSE
    /\ disp' = [disp EXCEPT !.pc = "exited", !.exit_code = 0]
    /\ UNCHANGED <<regvars, ret, dispvars, server_, management_server_, lifeothers>>

\* signal_handler: g_shutdown_requested = true; if (g_ingress)
\* g_ingress->stop(), of which this is running_.exchange(false).
SignalHandler ==
    /\ disp.pc # "exited"
    /\ disp.stopper = "none"
    /\ running_' = IF disp.g_ingress THEN FALSE ELSE running_
    /\ disp' = [disp EXCEPT !.g_shutdown_requested = TRUE,
                            !.stop_begun = @ \/ disp.g_ingress,
                            !.shutdown_begun = @ \/ (disp.g_ingress /\ running_),
                            !.stopper = IF disp.g_ingress /\ running_
                                        THEN "server" ELSE "none"]
    /\ UNCHANGED <<regvars, ret, dispvars, server_, management_server_, lifeothers>>

\* stop(): if (server_) server_->Shutdown();
StopServer ==
    /\ disp.stopper = "server"
    /\ server_' = IF server_ = "null" THEN "null" ELSE "shutdown"
    /\ disp' = [disp EXCEPT !.stopper =
                   IF server_ = "null" THEN "management" ELSE "server_wait"]
    /\ UNCHANGED <<regvars, ret, dispvars, running_, management_server_, lifeothers>>

\* server_->Shutdown() returns when the handlers in flight have returned.
StopServerDone ==
    /\ disp.stopper = "server_wait"
    /\ HandlersInFlight = {}
    /\ disp' = [disp EXCEPT !.stopper = "management"]
    /\ UNCHANGED <<regvars, ret, dispvars, running_, server_, management_server_, lifeothers>>

\* stop(): if (management_server_) management_server_->Shutdown();
StopManagement ==
    /\ disp.stopper = "management"
    /\ management_server_' =
          IF management_server_ = "null" THEN "null" ELSE "shutdown"
    /\ disp' = [disp EXCEPT !.stopper = "none"]
    /\ UNCHANGED <<regvars, ret, dispvars, running_, server_, lifeothers>>

(***************************************************************************)
(* KServeServiceImpl: health and readiness                                 *)
(***************************************************************************)

ServerLive ==
    /\ ret' = [op |-> "ServerLive", live |-> TRUE]
    /\ UNCHANGED <<regvars, dispvars, lifevars, lifeothers>>

\* response->set_ready(ingress_->is_running())
ServerReady ==
    /\ ret' = [op |-> "ServerReady", ready |-> running_]
    /\ UNCHANGED <<regvars, dispvars, lifevars, lifeothers>>

\* response->set_ready(lookup_worker(name, version).has_value())
ModelReady(name, version) ==
    /\ ret' = [op |-> "ModelReady", ready |-> lookup_worker(name, version) # NotFound]
    /\ UNCHANGED <<regvars, dispvars, lifevars, lifeothers>>

\* The KServe port answers while server_ is serving, the management port
\* while management_server_ is.
KServeServing == server_ = "serving"

ManagementServing == management_server_ = "serving"

LifeNext ==
    \/ MainConstruct
    \/ Run
    \/ \E bound \in BOOLEAN : RunServerBuild(bound)
    \/ RunServerReturns
    \/ \E bound \in BOOLEAN : RunManagementBuild(bound)
    \/ RunManagementReturns
    \/ RunReturns
    \/ MainReturns
    \/ SignalHandler
    \/ StopServer
    \/ StopServerDone
    \/ StopManagement
    \/ KServeServing /\ ServerLive
    \/ KServeServing /\ ServerReady
    \/ \E n \in ModelNames, v \in ModelVersions : KServeServing /\ ModelReady(n, v)
    \/ \E c \in LifeCalls, n \in ModelNames, v \in ModelVersions :
          KServeServing /\ ModelInfer(c, n, v)
    \/ \E c \in LifeCalls : ForwardAcquire(c)
    \/ \E c \in LifeCalls : ForwardSend(c)
    \/ \E c \in LifeCalls : ForwardRecv(c)
    \/ \E c \in LifeCalls : ForwardRelease(c)
    \/ \E w \in LocalWorkers : WorkerStart(w)
    \/ \E w \in LocalWorkers, n \in ModelNames :
          ManagementServing /\ WorkerRegisters(w, n, "")
    \/ \E c \in LifeCalls : WorkerSendsHeader(c)
    \/ \E c \in LifeCalls, parseable \in BOOLEAN : WorkerSendsBody(c, parseable)

LifeSpec == Init /\ [][LifeNext]_vars

\* The threads of the Dispatcher process keep running: the two server
\* threads, the thread inside stop(), run() waiting in join, and the
\* handler threads.  Signals, clients and Workers are under no obligation.
LifeFairness ==
    /\ WF_vars(\E bound \in BOOLEAN : RunServerBuild(bound))
    /\ WF_vars(\E bound \in BOOLEAN : RunManagementBuild(bound))
    /\ WF_vars(RunServerReturns)
    /\ WF_vars(RunManagementReturns)
    /\ WF_vars(RunReturns)
    /\ WF_vars(StopServer)
    /\ WF_vars(StopServerDone)
    /\ WF_vars(StopManagement)
    /\ \A c \in LifeCalls :
          /\ WF_vars(ForwardAcquire(c))
          /\ WF_vars(ForwardSend(c))
          /\ WF_vars(ForwardRecv(c))
          /\ WF_vars(ForwardRelease(c))

FairLifeSpec == LifeSpec /\ LifeFairness

(***************************************************************************)
(* AnyserveCore (cpp/server/anyserve_core.cpp): the capabilities an        *)
(* instance has registered, and its GrpcServiceImpl.  names_dir maps a     *)
(* capability to the address stored in <root>/names/<capability>/<id>.     *)
(***************************************************************************)

Capabilities == {"a", "b"}

CoreAddress == "localhost:10000"

coreothers == <<regvars, dispvars, concvars, supvars, lifevars, framevars, clustervars>>

register_capability(name) ==
    /\ local_capabilities_' = local_capabilities_ \cup {name}
    /\ names_dir' = MapPut(names_dir, name, CoreAddress)

lookup_capability(name) ==
    IF name \in DOMAIN names_dir THEN <<names_dir[name]>> ELSE <<>>

RegisterCapability(name) ==
    /\ register_capability(name)
    /\ ret' = [op |-> "register_capability"]
    /\ UNCHANGED coreothers

\* GrpcServiceImpl::ModelReady: response->set_ready(true)
GrpcModelReady(name, version) ==
    /\ ret' = [op |-> "GrpcServiceImpl::ModelReady", name |-> name, ready |-> TRUE]
    /\ UNCHANGED <<corevars, coreothers>>

\* The two implementations of the KServe ModelReady RPC, each next to the
\* registrations that feed its registry.
ReadyNext ==
    \/ \E n \in ModelNames, v \in ModelVersions, w \in WorkerIds :
          RegisterModel(n, v, AddressOf(w), w)
    \/ \E n \in ModelNames, v \in ModelVersions, w \in WorkerIds : UnregisterModel(n, v, w)
    \/ \E n \in ModelNames, v \in ModelVersions : ModelReady(n, v)
    \/ \E name \in Capabilities : RegisterCapability(name)
    \/ \E name \in Capabilities, v \in ModelVersions : GrpcModelReady(name, v)

ReadySpec == Init /\ [][ReadyNext]_vars

(***************************************************************************)
(* WorkerClient::send_data / recv_data: the length-prefixed frame.         *)
(*                                                                         *)
(* sock.bytes are the bytes written to the socket and not yet read,        *)
(* sock.closed tells that the connection broke after them.  xfer.pc:       *)
(* "start"; "sent" send_data has returned; "payload" recv_data has read    *)
(* the length; "done" recv_data has returned.  xfer.declared is the size   *)
(* of the data handed to send_data, xfer.wrote the bytes that reached the  *)
(* socket, xfer.consumed the bytes recv_data took off the socket.          *)
(***************************************************************************)

frameothers == <<regvars, ret, dispvars, concvars, supvars, lifevars, corevars, clustervars>>

Min(a, b) == IF a < b THEN a ELSE b

\* Mutant: the length is sent in the byte order of a little-endian host.
htonl_NoSwap(n) ==
    <<n % 256, (n \div 256) % 256, (n \div 65536) % 256, (n \div 16777216) % 256>>

\* htonl(static_cast<uint32_t>(n)) as the 4 bytes send() writes, for
\* n < 2^32.
htonl(n) ==
    <<(n \div 16777216) % 256, (n \div 65536) % 256, (n \div 256) % 256, n % 256>>

\* ntohl of the 4 bytes recv() stored.
ntohl(b) == ((b[1] * 256 + b[2]) * 256 + b[3]) * 256 + b[4]

\* send_data(data): the header, then the payload; k of the 4 + N bytes
\* reach the socket before the connection breaks (k = 4 + N: all of them).
\* send_data returns true when every send() took its bytes.
SendData(k) ==
    /\ xfer.pc = "start"
    /\ LET frame == htonl(Len(payload)) \o payload
       IN  /\ k \in 0..Len(frame)
           /\ sock' = [bytes |-> SubSeq(frame, 1, k), closed |-> k < Len(frame)]
           /\ xfer' = [pc |-> "sent", declared |-> Len(payload),
                       wrote |-> SubSeq(frame, 1, k), send_ok |-> k = Len(frame),
                       more |-> FALSE, length |-> 0, data |-> <<>>, consumed |-> 0,
                       recv_ok |-> FALSE]
    /\ UNCHANGED <<payload, frameothers>>

\* send_data for data of n bytes, of which only the header reaches the
\* socket before the connection breaks.
SendHeaderOnly(n) ==
    /\ xfer.pc = "start"
    /\ payload = <<>>
    /\ sock' = [bytes |-> htonl(n), closed |-> TRUE]
    /\ xfer' = [pc |-> "sent", declared |-> n, wrote |-> htonl(n), send_ok |-> FALSE,
                more |-> FALSE, length |-> 0, data |-> <<>>, consumed |-> 0,
                recv_ok |-> FALSE]
    /\ UNCHANGED <<payload, frameothers>>

\* The sender goes on with the first byte of its next frame.
SendMore(b) ==
    /\ xfer.pc \in {"sent", "payload"}
    /\ xfer.send_ok
    /\ ~xfer.more
    /\ sock' = [sock EXCEPT !.bytes = Append(@, b)]
    /\ xfer' = [xfer EXCEPT !.more = TRUE]
    /\ UNCHANGED <<payload, frameothers>>

\* recv_data: recv(&length, 4, MSG_WAITALL); fewer than 4 bytes before the
\* end of the stream is a failure; length = ntohl(length).
RecvHeader ==
    /\ xfer.pc = "sent"
    /\ Len(sock.bytes) >= 4 \/ sock.closed
    /\ IF Len(sock.bytes) >= 4
       THEN /\ xfer' = [xfer EXCEPT !.pc = "payload",
                                    !.length = ntohl(SubSeq(sock.bytes, 1, 4)),
                                    !.consumed = 4]
            /\ sock' = [sock EXCEPT !.bytes = SubSeq(@, 5, Len(@))]
       ELSE /\ xfer' = [xfer EXCEPT !.pc = "done", !.recv_ok = FALSE,
                                    !.consumed = Len(sock.bytes)]
            /\ sock' = [sock EXCEPT !.bytes = <<>>]
    /\ UNCHANGED <<payload, frameothers>>

\* recv_data, one turn of the loop: recv() stores n > 0 bytes, at most
\* length - received.
RecvPayload(n) ==
    /\ xfer.pc = "payload"
    /\ Len(xfer.data) < xfer.length
    /\ n \in 1..Min(Len(sock.bytes), xfer.length - Len(xfer.data))
    /\ xfer' = [xfer EXCEPT !.data = @ \o SubSeq(sock.bytes, 1, n),
                            !.consumed = @ + n]
    /\ sock' = [sock EXCEPT !.bytes = SubSeq(@, n + 1, Len(@))]
    /\ UNCHANGED <<payload, frameothers>>

\* recv_data, recv() returned 0: the stream ended inside the payload.
RecvEof ==
    /\ xfer.pc = "payload"
    /\ Len(xfer.data) < xfer.length
    /\ sock.bytes = <<>>
    /\ sock.closed
    /\ xfer' = [xfer EXCEPT !.pc = "done", !.recv_ok = FALSE]
    /\ UNCHANGED <<payload, sock, frameothers>>

\* recv_data: received == length, return true.
RecvDone ==
    /\ xfer.pc = "payload"
    /\ Len(xfer.data) = xfer.length
    /\ xfer' = [xfer EXCEPT !.pc = "done", !.recv_ok = TRUE]
    /\ UNCHANGED <<payload, sock, frameothers>>

FrameInit ==
    /\ InitRest
    /\ payload \in Payloads

FrameNext ==
    \/ \E k \in 0..(4 + MaxPayload) : SendData(k)
    \/ \E n \in ProbeLengths : SendHeaderOnly(n)
    \/ \E b \in Bytes : SendMore(b)
    \/ RecvHeader
    \/ \E n \in 1..MaxPayload : RecvPayload(n)
    \/ RecvEof
    \/ RecvDone

FrameSpec == FrameInit /\ [][FrameNext]_vars

(***************************************************************************)
(* Delegation between AnyserveCore instances.  An external request enters  *)
(* at one instance; GrpcServiceImpl::ModelInfer reads the is_delegated     *)
(* parameter and hands the request to the Python dispatcher, which serves  *)
(* it, fails it, or re-issues it with AnyserveCore::remote_call.           *)
(*                                                                         *)
(* dreq.pc: "none" no request yet; "at" being handled by instance dreq.at; *)
(* "done" answered.  dreq.param is the value of the request parameter      *)
(* "is_delegated" as it is on the wire; dreq.path lists the instances the  *)
(* request has reached, dreq.issued counts the remote_call invocations     *)
(* made for it.                                                            *)
(***************************************************************************)

delegothers == <<regvars, dispvars, concvars, supvars, lifevars, corevars,
                 framevars, dirvars, lockvars, morevars>>

\* The ways a request can carry (or not carry) the parameter "is_delegated":
\* absent, a bool_param, or a parameter of another kind of the oneof.
DelegParams == {"absent", "bool_true", "bool_false", "string_true"}

\* address_ = "localhost:" + std::to_string(port_)
ReplicaAddress(r) == "localhost:" \o r

\* ModelInfer: find("is_delegated"), then bool_param(), which is false for
\* a parameter that holds another member of the oneof.
is_delegated_of(param) == param = "bool_true"

\* Mutant: remote_call sends the request without the delegation mark.
remote_call_parameters_Unmarked(is_delegated) == "absent"

\* Mutant: the mark is written as a string parameter.
remote_call_parameters_String(is_delegated) ==
    IF is_delegated THEN "string_true" ELSE "absent"

\* remote_call: the parameter is set only for a delegated call.
remote_call_parameters(is_delegated) ==
    IF is_delegated THEN "bool_true" ELSE "absent"

\* register_capability of instance r.
replica_register_capability(r, name) ==
    /\ fleet' = [fleet EXCEPT ![r] = @ \cup {name}]
    /\ names_files' = MapPut(names_files, <<name, r>>, ReplicaAddress(r))

\* lookup_capability: the addresses stored in the files of <root>/names/<name>.
replica_lookup_capability(name) ==
    {names_files[f] : f \in {g \in DOMAIN names_files : g[1] = name}}

\* The Python dispatcher's decision for a request it cannot serve locally:
\* a delegated request is refused, any other is re-issued once to an
\* instance other than itself.
dispatch(r, capability, is_delegated) ==
    IF capability \in fleet[r] THEN {"local"}
    ELSE IF is_delegated THEN {"refuse"}
    ELSE LET endpoints == replica_lookup_capability(capability) \ {ReplicaAddress(r)}
         IN  IF endpoints = {} THEN {"refuse"} ELSE endpoints

DelegDone(status) ==
    [dreq EXCEPT !.pc = "done", !.status = status]

ReplicaRegisters(r, name) ==
    /\ replica_register_capability(r, name)
    /\ UNCHANGED <<dreq, ret, delegothers>>

\* The process of instance r is killed and started again with the same
\* instance id and port: local_capabilities_ is empty, the files stay, and
\* a request it was handling is lost.
ReplicaRestarts(r) ==
    /\ fleet[r] # {}
    /\ fleet' = [fleet EXCEPT ![r] = {}]
    /\ dreq' = IF dreq.pc = "at" /\ dreq.at = r THEN DelegDone("UNAVAILABLE") ELSE dreq
    /\ UNCHANGED <<names_files, ret, delegothers>>

\* An external client sends ModelInfer to instance r.
ClientInfer(r, capability, param) ==
    /\ dreq.pc \in {"none", "done"}
    /\ dreq' = [pc |-> "at", at |-> r, capability |-> capability, param |-> param,
                path |-> <<r>>, issued |-> 0, status |-> "none"]
    /\ UNCHANGED <<fleet, names_files, ret, delegothers>>

\* GrpcServiceImpl::ModelInfer on instance r: the dispatcher callback is
\* called with the is_delegated read off the request, and what becomes of
\* the request; a re-issued request goes out through remote_call(address,
\* capability, args, true).
ModelInferDispatches(r) ==
    /\ dreq.pc = "at"
    /\ dreq.at = r
    /\ \E d \in dispatch(r, dreq.capability, is_delegated_of(dreq.param)) :
          dreq' = CASE d = "local" -> DelegDone("OK")
                    [] d = "refuse" -> DelegDone("INTERNAL")
                    [] OTHER ->
                       LET target == CHOOSE t \in Replicas : ReplicaAddress(t) = d
                       IN  [dreq EXCEPT !.at = target,
                                        !.param = remote_call_parameters(TRUE),
                                        !.path = Append(@, target),
                                        !.issued = @ + 1]

GrpcModelInfer(r) ==
    /\ ModelInferDispatches(r)
    /\ UNCHANGED <<fleet, names_files, ret, delegothers>>

DelegNext ==
    \/ \E r \in Replicas, name \in Capabilities : ReplicaRegisters(r, name)
    \/ \E r \in Replicas : ReplicaRestarts(r)
    \/ \E r \in Replicas, name \in Capabilities, param \in DelegParams :
          ClientInfer(r, name, param)
    \/ \E r \in Replicas : GrpcModelInfer(r)

DelegSpec == Init /\ [][DelegNext]_vars

\* Application code on instance r calls remote_call(address of target,
\* capability, args, is_delegated); dreq.sent records the argument.
RemoteCall(r, target, capability, is_delegated) ==
    /\ dreq.pc \in {"none", "done"}
    /\ r # target
    /\ dreq' = [pc |-> "at", at |-> target, capability |-> capability,
                param |-> remote_call_parameters(is_delegated),
                path |-> <<r, target>>, issued |-> 1, status |-> "none",
                sent |-> is_delegated]
    /\ UNCHANGED <<fleet, names_files, ret, delegothers>>

\* GrpcServiceImpl::ModelInfer as above; ret records the arguments the
\* dispatcher callback was called with.
HopModelInfer(r) ==
    /\ ModelInferDispatches(r)
    /\ ret' = [op |-> "dispatcher", capability |-> dreq.capability,
               is_delegated |-> is_delegated_of(dreq.param)]
    /\ UNCHANGED <<fleet, names_files, delegothers>>

\* Requests that arrive from clients and from remote_call of any instance.
HopNext ==
    \/ \E r \in Replicas, name \in Capabilities : ReplicaRegisters(r, name)
    \/ \E r \in Replicas, name \in Capabilities, param \in DelegParams :
          ClientInfer(r, name, param)
    \/ \E r, target \in Replicas, name \in Capabilities, b \in BOOLEAN :
          RemoteCall(r, target, name, b)
    \/ \E r \in Replicas : HopModelInfer(r)

HopSpec == Init /\ [][HopNext]_vars

(***************************************************************************)
(* The Directory (API Server): POST /register opens a control stream and   *)
(* stores the entry of a replica, GET /route answers a capability query,   *)
(* GET /registry lists the entries.                                        *)
(*                                                                         *)
(* streams[s].state: "none" not opened yet; "open"; "broken" the client    *)
(* has gone or the connection has failed and the server has not noticed    *)
(* yet; "closed" the server has ended the stream and cleaned up.           *)
(***************************************************************************)

dirothers == <<regvars, dispvars, concvars, supvars, lifevars, corevars,
               framevars, delegvars, lockvars, morevars>>

\* The replicas that register with the Directory, and their endpoints.
DirReplicaIds == {"r1", "r2"}

EndpointOf(r) == "localhost:" \o r

\* Capability offers and the lists of offers a replica registers with.
OfferChat == [type |-> "chat"]
OfferEmbed == [type |-> "embed"]
OfferModelChat == [model |-> "m", type |-> "chat"]

CapabilityLists == {{}, {OfferChat}, {OfferEmbed}, {OfferModelChat, OfferEmbed}}

\* Queries: the parameters of GET /route.
Queries == {EmptyMap, [type |-> "chat"], [type |-> "embed"], [model |-> "m"],
            [model |-> "m", type |-> "chat"], [model |-> "m", gpu |-> "1"]}

\* exclude_replica_id, "" when the parameter is not given.
NoExclude == ""

Excludes == DirReplicaIds \cup {NoExclude}

\* Mutant: a query matches an offer that has all of its keys.
offer_matches_KeysOnly(query, offer) ==
    \A k \in DOMAIN query : k \in DOMAIN offer

\* Subset match of a query against one offer.
offer_matches(query, offer) ==
    \A k \in DOMAIN query : k \in DOMAIN offer /\ offer[k] = query[k]

\* Mutant: exclude_replica_id is ignored.
lookup_candidates_NoExclude(exclude) == DOMAIN replicas

\* The entries a lookup considers.
lookup_candidates(exclude) == DOMAIN replicas \ {exclude}

\* The replicas a lookup may answer with.
lookup_matches(query, exclude) ==
    {r \in lookup_candidates(exclude) :
        \E offer \in replicas[r].capabilities : offer_matches(query, offer)}

\* Mutant: the entry outlives its stream.
directory_unregister_Keep(replica_id) == replicas' = replicas

\* The entry of replica_id is removed.
directory_unregister(replica_id) ==
    replicas' = MapErase(replicas, {replica_id})

\* POST /register on a new stream: the entry is stored, replacing an
\* earlier entry of the same replica_id.
DirRegister(s, replica_id, capabilities) ==
    /\ streams[s].state = "none"
    /\ \A t \in Streams : t < s => streams[t].state # "none"
    /\ replicas' = MapPut(replicas, replica_id,
                          [replica_id |-> replica_id, endpoint |-> EndpointOf(replica_id),
                           capabilities |-> capabilities])
    /\ streams' = [streams EXCEPT ![s] = [state |-> "open", replica_id |-> replica_id]]
    /\ ret' = [op |-> "register", status |-> "registered", replica_id |-> replica_id]
    /\ UNCHANGED dirothers

\* The client disconnects, or the connection fails under the stream.
StreamBreaks(s) ==
    /\ streams[s].state = "open"
    /\ streams' = [streams EXCEPT ![s].state = "broken"]
    /\ UNCHANGED <<replicas, ret, dirothers>>

\* The server ends the stream: it was told of the disconnect, a keep-alive
\* write failed, or the handler raised an error.
StreamCloses(s) ==
    /\ streams[s].state \in {"open", "broken"}
    /\ directory_unregister(streams[s].replica_id)
    /\ streams' = [streams EXCEPT ![s].state = "closed"]
    /\ UNCHANGED <<ret, dirothers>>

\* GET /route: one of the matching entries, or 404.
Route(query, exclude) ==
    /\ LET matches == lookup_matches(query, exclude)
       IN  IF matches = {}
           THEN ret' = [op |-> "route", query |-> query, exclude |-> exclude,
                        status |-> 404, replica_id |-> NotFound]
           ELSE \E r \in matches :
                   ret' = [op |-> "route", query |-> query, exclude |-> exclude,
                           status |-> 200, replica_id |-> replicas[r].replica_id,
                           endpoint |-> replicas[r].endpoint]
    /\ UNCHANGED <<dirvars, dirothers>>

\* GET /registry
RegistrySnapshot ==
    /\ ret' = [op |-> "registry", replicas |-> {replicas[r] : r \in DOMAIN replicas}]
    /\ UNCHANGED <<dirvars, dirothers>>

DirNext ==
    \/ \E s \in Streams, r \in DirReplicaIds, caps \in CapabilityLists :
          DirRegister(s, r, caps)
    \/ \E s \in Streams : StreamBreaks(s)
    \/ \E s \in Streams : StreamCloses(s)
    \/ \E q \in Queries, x \in Excludes : Route(q, x)
    \/ RegistrySnapshot

DirSpec == Init /\ [][DirNext]_vars

\* The keep-alive is written periodically, so a broken stream is found out.
DirFairness ==
    \A s \in Streams : WF_vars(streams[s].state = "broken" /\ StreamCloses(s))

FairDirSpec == DirSpec /\ DirFairness

(***************************************************************************)
(* WorkerClient::forward_request under WorkerClient::mutex_.  Steps 3 and  *)
(* 7 of forward_request take the one mutex_ of the WorkerClient around     *)
(* pools_[socket_path].acquire and .release; acquire constructs the        *)
(* Connection, whose constructor calls connect(), inside that critical     *)
(* section.  connect() on a stream socket blocks while the accept queue of *)
(* the listening Worker is full.                                           *)
(*                                                                         *)
(* call[c].pc = "acquire": the call holds mutex_ and is inside             *)
(* pool.acquire.                                                           *)
(***************************************************************************)

lockothers == <<regvars, ret, concvars, supvars, lifevars, corevars, framevars,
                delegvars, dirvars, morevars>>

\* forward_request is called with the address of a registered Worker.
ForwardRequestCall(c, worker_address) ==
    /\ call[c].pc \in {"idle", "done"}
    /\ call' = [call EXCEPT ![c] = Forwarding(worker_address)]
    /\ UNCHANGED <<pools_, wire, worker_proc, lockvars, lockothers>>

\* std::lock_guard<std::mutex> lock(mutex_) of step 3.
AcquireLock(c) ==
    /\ call[c].pc = "forward"
    /\ wc_mutex_ = 0
    /\ wc_mutex_' = c
    /\ call' = [call EXCEPT ![c].pc = "acquire"]
    /\ UNCHANGED <<pools_, wire, worker_proc, backlog_full, lockothers>>

\* The connect() of a new Connection would block.
ConnectBlocks(c) ==
    LET socket_path == call[c].socket_path
    IN  /\ PoolOf(socket_path).available = <<>>
        /\ PoolHasRoom(PoolOf(socket_path))
        /\ ConnectOk(socket_path)
        /\ backlog_full[socket_path]

\* pool.acquire returns (connect() has succeeded or failed, or no connect
\* was attempted), the lock_guard is destroyed, and forward_request tests
\* the connection.
AcquireReturns(c) ==
    /\ call[c].pc = "acquire"
    /\ ~ConnectBlocks(c)
    /\ LET socket_path == call[c].socket_path
           r == acquire(PoolOf(socket_path), socket_path)
       IN  /\ pools_' = MapPut(pools_, socket_path, r.pool)
           /\ call' = [call EXCEPT ![c] =
                          IF r.conn = "null"
                          THEN InternalReply(c, "Failed to acquire connection", 0)
                          ELSE [@ EXCEPT !.pc = "send", !.acquires = @ + 1]]
    /\ wire' = [wire EXCEPT ![c] = "none"]
    /\ wc_mutex_' = 0
    /\ UNCHANGED <<worker_proc, backlog_full, lockothers>>

\* Step 7: lock mutex_, pool.release, unlock.
ReleaseLocked(c) ==
    /\ wc_mutex_ = 0
    /\ ForwardRelease(c)

\* The Worker stops accepting (its accept queue fills up), or accepts again.
BacklogFills(w) ==
    /\ worker_proc[SocketPathOf(w)] = "up"
    /\ ~backlog_full[SocketPathOf(w)]
    /\ backlog_full' = [backlog_full EXCEPT ![SocketPathOf(w)] = TRUE]
    /\ UNCHANGED <<dispvars, wc_mutex_, lockothers>>

BacklogDrains(w) ==
    /\ backlog_full[SocketPathOf(w)]
    /\ backlog_full' = [backlog_full EXCEPT ![SocketPathOf(w)] = FALSE]
    /\ UNCHANGED <<dispvars, wc_mutex_, lockothers>>

LockNext ==
    \/ \E c \in Calls, w \in WorkerIds : ForwardRequestCall(c, AddressOf(w))
    \/ \E c \in Calls : AcquireLock(c)
    \/ \E c \in Calls : AcquireReturns(c)
    \/ \E c \in Calls : ForwardSend(c)
    \/ \E c \in Calls : ForwardRecv(c)
    \/ \E c \in Calls : ReleaseLocked(c)
    \/ \E w \in WorkerIds : WorkerStart(w)
    \/ \E w \in WorkerIds : BacklogFills(w)
    \/ \E w \in WorkerIds : BacklogDrains(w)
    \/ \E c \in Calls : WorkerSendsHeader(c)
    \/ \E c \in Calls : WorkerSendsBody(c, TRUE)
    \/ \E c \in Calls : WorkerCloses(c)

LockSpec == Init /\ [][LockNext]_vars

(***************************************************************************)
(* ConnectionPool::acquire and the Connection it constructs, step by step. *)
(* acquire runs under WorkerClient::mutex_, so one acquire is in progress  *)
(* at a time.  fd_table holds the socket descriptors the process has open, *)
(* held the descriptors of the Connections that forward_request calls own. *)
(*                                                                         *)
(* acquiring.pc: "idle" / "returned" no acquire in progress; "entered"     *)
(* acquire called; "socket" the constructor has its descriptor;            *)
(* "constructed" the constructor has returned.  acquiring.fd is            *)
(* Connection::fd; sockfd (the descriptor socket() returned), pool0 (the   *)
(* pool when acquire was entered) and connect_failed are history.          *)
(***************************************************************************)

connothers == <<regvars, ret, call, wire, concvars, supvars, lifevars, corevars,
                framevars, delegvars, dirvars, lockvars, respvars, tailvars>>

\* The descriptors socket() can return before it fails with EMFILE.
MaxFds == 3

Fds == 1 .. MaxFds

\* The Workers whose sockets the pools connect to.
ConnWorkers == {"w1", "w2"}

\* socket() returns the lowest descriptor that is not open.
LowestFree == CHOOSE fd \in Fds \ fd_table : \A g \in Fds \ fd_table : fd <= g

\* forward_request step 3: pools_[socket_path] (which default-constructs a
\* missing pool) and the call of pool.acquire(socket_path).
AcquireEnter(socket_path) ==
    /\ acquiring.pc \in {"idle", "returned"}
    /\ pools_' = MapPut(pools_, socket_path, PoolOf(socket_path))
    /\ acquiring' = [pc |-> "entered", socket_path |-> socket_path,
                     pool0 |-> PoolOf(socket_path), fd |-> -1, sockfd |-> -1,
                     connect_failed |-> FALSE, result |-> "none"]
    /\ UNCHANGED <<fd_table, held, worker_proc, connothers>>

\* acquire returns without constructing a Connection: an idle connection
\* is handed out, or the pool is at max_connections and nullptr is returned.
AcquireNoConnect ==
    /\ acquiring.pc = "entered"
    /\ LET socket_path == acquiring.socket_path
           pool == pools_[socket_path]
           r == acquire(pool, socket_path)
       IN  /\ pool.available # <<>> \/ ~PoolHasRoom(pool)
           /\ pools_' = MapPut(pools_, socket_path, r.pool)
           /\ acquiring' = [acquiring EXCEPT !.pc = "returned", !.result = r.conn]
    /\ UNCHANGED <<fd_table, held, worker_proc, connothers>>

\* Connection::Connection, socket(): a descriptor, or -1 and the
\* constructor returns.
ConnectionSocket(ok) ==
    /\ acquiring.pc = "entered"
    /\ LET pool == pools_[acquiring.socket_path]
       IN  pool.available = <<>> /\ PoolHasRoom(pool)
    /\ ok => Fds \ fd_table # {}
    /\ IF ok
       THEN /\ fd_table' = fd_table \cup {LowestFree}
            /\ acquiring' = [acquiring EXCEPT !.pc = "socket", !.fd = LowestFree,
                                              !.sockfd = LowestFree]
       ELSE /\ acquiring' = [acquiring EXCEPT !.pc = "constructed"]
            /\ UNCHANGED fd_table
    /\ UNCHANGED <<pools_, held, worker_proc, connothers>>

\* Mutant: a failed connect() leaves the descriptor open.
ConnectionConnect_NoClose ==
    /\ acquiring.pc = "socket"
    /\ acquiring' = IF ConnectOk(acquiring.socket_path)
                    THEN [acquiring EXCEPT !.pc = "constructed"]
                    ELSE [acquiring EXCEPT !.pc = "constructed", !.fd = -1,
                                           !.connect_failed = TRUE]
    /\ UNCHANGED <<fd_table, pools_, held, worker_proc, connothers>>

\* Connection::Connection, connect(): on failure ::close(fd) and fd = -1.
ConnectionConnect ==
    /\ acquiring.pc = "socket"
    /\ IF ConnectOk(acquiring.socket_path)
       THEN /\ acquiring' = [acquiring EXCEPT !.pc = "constructed"]
            /\ UNCHANGED fd_table
       ELSE /\ fd_table' = fd_table \ {acquiring.fd}
            /\ acquiring' = [acquiring EXCEPT !.pc = "constructed", !.fd = -1,
                                              !.connect_failed = TRUE]
    /\ UNCHANGED <<pools_, held, worker_proc, connothers>>

\* acquire after make_unique<Connection>: a valid connection is counted in
\* in_use and returned; an invalid one is destroyed (Connection::close does
\* nothing when fd is -1) and nullptr is returned.
AcquireTest ==
    /\ acquiring.pc = "constructed"
    /\ LET socket_path == acquiring.socket_path
       IN  IF acquiring.fd >= 0
           THEN /\ pools_' = [pools_ EXCEPT ![socket_path].in_use = @ + 1]
                /\ held' = MapPut(held, acquiring.fd, socket_path)
                /\ acquiring' = [acquiring EXCEPT !.pc = "returned", !.result = "new"]
           ELSE /\ acquiring' = [acquiring EXCEPT !.pc = "returned", !.result = "null"]
                /\ UNCHANGED <<pools_, held>>
    /\ UNCHANGED <<fd_table, worker_proc, connothers>>

\* forward_request returns false at step 4, 5 or 6: its unique_ptr is
\* destroyed, which closes the descriptor; the pool is not told.
ConnectionDropped(fd) ==
    /\ fd \in DOMAIN held
    /\ fd_table' = fd_table \ {fd}
    /\ held' = MapErase(held, {fd})
    /\ UNCHANGED <<pools_, acquiring, worker_proc, connothers>>

\* forward_request step 7: pool.release under mutex_, which destroys the
\* connection.
ConnectionReleased(fd) ==
    /\ fd \in DOMAIN held
    /\ acquiring.pc \in {"idle", "returned"}
    /\ pools_' = MapPut(pools_, held[fd], release(pools_[held[fd]]))
    /\ fd_table' = fd_table \ {fd}
    /\ held' = MapErase(held, {fd})
    /\ UNCHANGED <<acquiring, worker_proc, connothers>>

ConnNext ==
    \/ \E w \in ConnWorkers : AcquireEnter(SocketPathOf(w))
    \/ AcquireNoConnect
    \/ \E ok \in BOOLEAN : ConnectionSocket(ok)
    \/ ConnectionConnect
    \/ AcquireTest
    \/ \E fd \in Fds : ConnectionDropped(fd)
    \/ \E fd \in Fds : ConnectionReleased(fd)
    \/ \E w \in ConnWorkers : WorkerStart(w)
    \/ \E w \in ConnWorkers : WorkerExits(w)

ConnSpec == Init /\ [][ConnNext]_vars

(***************************************************************************)
(* The management port driven by arbitrary clients: every request of the   *)
(* WorkerManagement service with any worker id, next to Workers that start *)
(* and exit (and so stop sending heartbeats), and the registry's           *)
(* unregister_worker.                                                      *)
(***************************************************************************)

\* The model_names lists a HeartbeatRequest carries.
HeartbeatNames == {<<>>, <<"a">>}

\* Mutant: a heartbeat from a worker the registry does not know is
\* answered unhealthy.
Heartbeat_KnownOnly(worker_id, model_names) ==
    /\ ret' = [op |-> "Heartbeat", healthy |-> worker_id \in DOMAIN worker_addresses_,
               worker_id |-> worker_id]
    /\ UNCHANGED <<regvars, dispvars, othervars>>

\* WorkerManagementServiceImpl::Heartbeat: set_healthy(true), nothing else.
\* ret.worker_id records the request's worker_id.
Heartbeat(worker_id, model_names) ==
    /\ ret' = [op |-> "Heartbeat", healthy |-> TRUE, worker_id |-> worker_id]
    /\ UNCHANGED <<regvars, dispvars, othervars>>

MgmtNext ==
    \/ \E n \in RegNames, v \in RegVersions, w \in WorkerIds :
          RegisterModel(n, v, AddressOf(w), w)
    \/ \E n \in RegNames, v \in RegVersions, w \in WorkerIds : UnregisterModel(n, v, w)
    \/ \E w \in WorkerIds, names \in HeartbeatNames : Heartbeat(w, names)
    \/ \E w \in WorkerIds : UnregisterWorkerCall(w)
    \/ \E w \in WorkerIds : WorkerStart(w)
    \/ \E w \in WorkerIds : WorkerExits(w)

MgmtSpec == Init /\ [][MgmtNext]_vars

(***************************************************************************)
(* A ProcessSupervisor on which spawn is called more than once, and its    *)
(* destructor.  spawn stores the new pipe and the new pid in read_fd_,     *)
(* write_fd_ and worker_pid_ whatever they held: orphans lists what the    *)
(* members referred to before, the child (its state, "none" when the       *)
(* entry is only a descriptor) and whether the read end is still open.     *)
(* handle.state: "alive", "destroying" (the destructor is in stop()),      *)
(* "destroyed".                                                            *)
(***************************************************************************)

respothers == <<regvars, dispvars, concvars, lifevars, corevars, framevars,
                delegvars, dirvars, lockvars, connvars, tailvars>>

\* The spawn calls after the first that the owner makes.
MaxRespawns == 2

\* spawn on a supervisor that has spawned before.  pipe() and fork()
\* succeed: the members are overwritten, the parent closes write_fd_.
\* fork() fails: the new pipe is closed through read_fd_ and write_fd_,
\* which leaves read_fd_ = -1, and spawn throws.
Respawn(forked) ==
    /\ handle.state = "alive"
    /\ sup.pc = "idle"
    /\ child.state # "none"
    /\ Len(orphans) < MaxRespawns
    /\ IF forked
       THEN /\ orphans' = Append(orphans, [child |-> child.state,
                                           read_open |-> read_fd_ >= 0])
            /\ child' = [state |-> "forked", killed |-> FALSE]
            /\ pipe' = [bytes |-> 0, write_open |-> TRUE]
            /\ worker_pid_' = WorkerPid + Len(orphans) + 1
            /\ read_fd_' = ReadFd
       ELSE /\ orphans' = Append(orphans, [child |-> "none",
                                           read_open |-> read_fd_ >= 0])
            /\ read_fd_' = -1
            /\ UNCHANGED <<child, pipe, worker_pid_>>
    /\ handle' = [handle EXCEPT !.write_fd_ = -1]
    /\ UNCHANGED <<uds_file, sup, proxy, ret, respothers>>

\* A child the supervisor no longer refers to exits; nobody waits for it.
OrphanExits(i) ==
    /\ i \in DOMAIN orphans
    /\ orphans[i].child \in {"forked", "running"}
    /\ orphans' = [orphans EXCEPT ![i].child = "zombie"]
    /\ UNCHANGED <<handle, supvars, ret, respothers>>

\* ~ProcessSupervisor: stop(); ...
DestroyStop ==
    /\ handle.state = "alive"
    /\ sup.pc = "idle"
    /\ stop_enter
    /\ handle' = [handle EXCEPT !.state = "destroying"]
    /\ UNCHANGED <<orphans, proxy, respothers>>

\* ... close_fd(read_fd_).
DestroyClose ==
    /\ handle.state = "destroying"
    /\ sup.pc = "idle"
    /\ read_fd_' = -1
    /\ handle' = [handle EXCEPT !.state = "destroyed"]
    /\ UNCHANGED <<orphans, worker_pid_, child, pipe, uds_file, sup, proxy, ret, respothers>>

RespawnNext ==
    \/ handle.state = "alive" /\ CallSpawn
    \/ \E forked \in BOOLEAN : Respawn(forked)
    \/ handle.state = "alive" /\ CallStop
    \/ handle.state = "alive" /\ CallIsAlive
    \/ DestroyStop
    \/ DestroyClose
    \/ StopPoll
    \/ StopKill
    \/ StopWait
    \/ ChildExec
    \/ \E unlinks \in BOOLEAN : ChildExits(unlinks)
    \/ ChildKilled
    \/ \E i \in 1 .. MaxRespawns : OrphanExits(i)

RespawnSpec == Init /\ [][RespawnNext]_vars

(***************************************************************************)
(* Life of one AnyserveCore: start, stop (also run by the destructor) and  *)
(* register_capability, step by step.  core.running_ is                    *)
(* AnyserveCore::running_; core.pc is the owner's thread: "idle",          *)
(* "unregister" (stop() is in unregister_from_scheduler, holding           *)
(* capabilities_mutex_, todo the capabilities whose file it has yet to     *)
(* remove), "shutdown" (stop() is shutting the server down); core.stops    *)
(* counts the stop() calls that have returned; core.reg is the thread in   *)
(* register_capability: "idle", or the capability it has inserted and      *)
(* whose file it has yet to write.                                         *)
(***************************************************************************)

corelifeothers == <<regvars, dispvars, concvars, supvars, lifevars, framevars,
                    delegvars, dirvars, lockvars, connvars, respvars, shmvars>>

\* The stop() calls (the destructor's included) a run makes.
MaxStops == 2

\* start(): nothing when running_; else running_ = true, BuildAndStart
\* (on failure running_ = false and a throw), register_to_scheduler.
CoreStart(bound) ==
    /\ core.pc = "idle"
    /\ core' = IF core.running_ THEN core
               ELSE [core EXCEPT !.running_ = bound, !.started = @ \/ bound]
    /\ ret' = [op |-> "start", threw |-> ~core.running_ /\ ~bound]
    /\ UNCHANGED <<corevars, corelifeothers>>

\* register_capability, first block: insert under capabilities_mutex_.
RegisterInsert(name) ==
    /\ core.reg = "idle"
    /\ core.pc # "unregister"
    /\ core.stops = 0
    /\ local_capabilities_' = local_capabilities_ \cup {name}
    /\ core' = [core EXCEPT !.reg = name]
    /\ UNCHANGED <<names_dir, ret, corelifeothers>>

\* register_capability, the rest: write address_ to
\* <root>/names/<name>/<instance_id>.
RegisterWrite ==
    /\ core.reg # "idle"
    /\ names_dir' = MapPut(names_dir, core.reg, CoreAddress)
    /\ core' = [core EXCEPT !.reg = "idle"]
    /\ ret' = [op |-> "register_capability"]
    /\ UNCHANGED <<local_capabilities_, corelifeothers>>

\* stop(): return at once unless running_; else running_ = false and
\* unregister_from_scheduler takes capabilities_mutex_.
CoreStop ==
    /\ core.pc = "idle"
    /\ core.stops < MaxStops
    /\ IF ~core.running_
       THEN /\ core' = [core EXCEPT !.stops = @ + 1]
            /\ ret' = [op |-> "stop"]
       ELSE /\ core' = [core EXCEPT !.running_ = FALSE, !.pc = "unregister",
                                    !.todo = local_capabilities_]
            /\ UNCHANGED ret
    /\ UNCHANGED <<corevars, corelifeothers>>

\* unregister_from_scheduler, one turn of the loop: fs::remove of the
\* file of one capability in local_capabilities_.
StopRemove(cap) ==
    /\ core.pc = "unregister"
    /\ cap \in core.todo
    /\ names_dir' = MapErase(names_dir, {cap})
    /\ core' = [core EXCEPT !.todo = @ \ {cap}]
    /\ UNCHANGED <<local_capabilities_, ret, corelifeothers>>

\* The loop is over: the mutex is released.
StopUnlock ==
    /\ core.pc = "unregister"
    /\ core.todo = {}
    /\ core' = [core EXCEPT !.pc = "shutdown"]
    /\ UNCHANGED <<corevars, ret, corelifeothers>>

\* server_->Shutdown(), server_thread_.join(), and stop() returns.
StopReturns ==
    /\ core.pc = "shutdown"
    /\ core' = [core EXCEPT !.pc = "idle", !.stops = @ + 1]
    /\ ret' = [op |-> "stop"]
    /\ UNCHANGED <<corevars, corelifeothers>>

\* lookup_capability(name), called by anyone sharing root_dir.
CoreLookup(name) ==
    /\ ret' = [op |-> "lookup_capability", name |-> name,
               value |-> lookup_capability(name)]
    /\ UNCHANGED <<corevars, core, corelifeothers>>

CoreLifeNext ==
    \/ \E bound \in BOOLEAN : CoreStart(bound)
    \/ \E name \in Capabilities : RegisterInsert(name)
    \/ RegisterWrite
    \/ CoreStop
    \/ \E cap \in Capabilities : StopRemove(cap)
    \/ StopUnlock
    \/ StopReturns
    \/ \E name \in Capabilities : CoreLookup(name)

CoreLifeSpec == Init /\ [][CoreLifeNext]_vars

(***************************************************************************)
(* ShmManager::create and RawShm (cpp/core/shm_manager.cpp).  shm maps an  *)
(* object to its members: "ret" is the RawShm that create returns, "x" and *)
(* "y" are objects of the caller.  state is "none" (not constructed, or    *)
(* destroyed) or "live"; ptr is "null", "mapped" or "failed" (MAP_FAILED). *)
(* A descriptor is named by the number of the shm_open call that returned  *)
(* it.                                                                     *)
(***************************************************************************)

shmothers == <<regvars, dispvars, concvars, supvars, lifevars, corevars, framevars,
               delegvars, dirvars, lockvars, connvars, respvars, core>>

\* The create calls of a run.
MaxCreates == 2

ShmObjects == {"ret", "x", "y"}

\* The objects of the caller.
ShmOwned == {"x", "y"}

CreateOutcomes == {"shm_open_failed", "ftruncate_failed", "mmap_failed", "ok"}

\* RawShm(): fd = -1, ptr = nullptr.
DefaultShm == [state |-> "live", fd |-> -1, ptr |-> "null"]

\* A moved-from RawShm: other.fd = -1, other.ptr = nullptr.
MovedFrom(o) == [o EXCEPT !.fd = -1, !.ptr = "null"]

\* RawShm::cleanup: munmap a mapping, close fd when fd >= 0.  The
\* descriptors it closes ...
cleanup_closes(o) == IF o.fd >= 0 THEN <<o.fd>> ELSE <<>>

\* ... and the object afterwards.
cleanup(o) ==
    [o EXCEPT !.ptr = IF @ = "mapped" THEN "null" ELSE @, !.fd = -1]

\* close() is called on each descriptor of the sequence fds.
CloseAll(fds) ==
    fd_closes' = [fd \in DOMAIN fd_closes |->
                     fd_closes[fd] + Cardinality({i \in DOMAIN fds : fds[i] = fd})]

\* ShmManager::create.  The local shm as the body leaves it on each path,
\* the descriptors the body closes itself, and whether it throws; a throw
\* destroys the local, a return moves it into the returned object.
create_local(outcome, fd) ==
    CASE outcome = "shm_open_failed" -> [DefaultShm EXCEPT !.fd = -1]
      [] outcome = "ftruncate_failed" -> [DefaultShm EXCEPT !.fd = fd]
      [] outcome = "mmap_failed" -> [DefaultShm EXCEPT !.fd = fd, !.ptr = "failed"]
      [] outcome = "ok" -> [DefaultShm EXCEPT !.fd = fd, !.ptr = "mapped"]

create_body_closes(outcome, fd) ==
    IF outcome \in {"ftruncate_failed", "mmap_failed"} THEN <<fd>> ELSE <<>>

Create(outcome) ==
    /\ shm["ret"].state = "none"
    /\ shm_opened < MaxCreates
    /\ LET fd == shm_opened + 1
           local == create_local(outcome, fd)
       IN  IF outcome = "shm_open_failed"
           THEN /\ UNCHANGED <<shm, shm_opened, fd_closes>>
                /\ ret' = [op |-> "create", threw |-> TRUE, outcome |-> outcome]
           ELSE /\ shm_opened' = fd
                /\ IF outcome = "ok"
                   THEN /\ shm' = [shm EXCEPT !["ret"] = local]
                        /\ fd_closes' = Append(fd_closes, 0)
                        /\ ret' = [op |-> "create", threw |-> FALSE, outcome |-> outcome]
                   ELSE /\ fd_closes' =
                              Append(fd_closes,
                                     Len(create_body_closes(outcome, fd))
                                       + Len(cleanup_closes(local)))
                        /\ UNCHANGED shm
                        /\ ret' = [op |-> "create", threw |-> TRUE, outcome |-> outcome]
    /\ UNCHANGED shmothers

\* RawShm x; a default-constructed object of the caller.
ShmDefault(dst) ==
    /\ shm[dst].state = "none"
    /\ shm' = [shm EXCEPT ![dst] = DefaultShm]
    /\ UNCHANGED <<shm_opened, fd_closes, ret, shmothers>>

\* RawShm(RawShm&& other)
ShmMoveConstruct(src, dst) ==
    /\ shm[src].state = "live"
    /\ shm[dst].state = "none"
    /\ shm' = [shm EXCEPT ![dst] = shm[src], ![src] = MovedFrom(shm[src])]
    /\ UNCHANGED <<shm_opened, fd_closes, ret, shmothers>>

\* operator=(RawShm&& other): nothing for this == &other; else cleanup(),
\* take other's members, reset other.
ShmMoveAssign(src, dst) ==
    /\ shm[src].state = "live"
    /\ shm[dst].state = "live"
    /\ IF src = dst
       THEN UNCHANGED <<shm, fd_closes>>
       ELSE /\ CloseAll(cleanup_closes(shm[dst]))
            /\ shm' = [shm EXCEPT ![dst] = shm[src], ![src] = MovedFrom(shm[src])]
    /\ UNCHANGED <<shm_opened, ret, shmothers>>

\* ~RawShm
ShmDestroy(o) ==
    /\ shm[o].state = "live"
    /\ CloseAll(cleanup_closes(shm[o]))
    /\ shm' = [shm EXCEPT ![o] = [cleanup(shm[o]) EXCEPT !.state = "none"]]
    /\ UNCHANGED <<shm_opened, ret, shmothers>>

ShmNext ==
    \/ \E outcome \in CreateOutcomes : Create(outcome)
    \/ \E dst \in ShmOwned : ShmDefault(dst)
    \/ \E src \in ShmObjects, dst \in ShmOwned : ShmMoveConstruct(src, dst)
    \/ \E src \in ShmObjects, dst \in ShmOwned : ShmMoveAssign(src, dst)
    \/ \E o \in ShmObjects : ShmDestroy(o)

ShmSpec == Init /\ [][ShmNext]_vars

(***************************************************************************)
(* Registry properties                                                     *)
(***************************************************************************)

\* The workers whose reverse vector holds key k.
ReverseOwners(k) ==
    {w \in DOMAIN worker_to_models_ : k \in SeqRange(worker_to_models_[w])}

\* C3: after any sequence of register_model and unregister_worker calls,
\* every key of the forward index is in the reverse vector of exactly one
\* worker, and every key of a reverse vector is in the forward index.
C3_IndicesMutuallyConsistent ==
    /\ \A k \in DOMAIN model_to_worker_ : Cardinality(ReverseOwners(k)) = 1
    /\ \A w \in DOMAIN worker_to_models_ :
          SeqRange(worker_to_models_[w]) \subseteq DOMAIN model_to_worker_

\* C4: unregister_worker(w) removes from the forward index every key whose
\* current entry was written by w, and no other key: an entry written by a
\* different worker's register_model is still there with the same endpoint.
C4_UnregisterWorkerRemovesOnlyOwn ==
    [][\A w \in WorkerIds :
          UnregisterWorkerCall(w) =>
             \A k \in DOMAIN model_to_worker_ :
                IF model_origin[k].worker_id = w
                THEN k \notin DOMAIN model_to_worker_'
                ELSE /\ k \in DOMAIN model_to_worker_'
                     /\ model_to_worker_'[k] = model_to_worker_[k]]_vars

\* The pair (n, v) is registered: some forward entry was written by
\* register_model(n, v, ...), and the endpoint it was registered with.
Registered(n, v) ==
    \E k \in DOMAIN model_origin :
       model_origin[k].name = n /\ model_origin[k].version = v

RegisteredEndpoint(n, v) ==
    LET k == CHOOSE x \in DOMAIN model_origin :
                model_origin[x].name = n /\ model_origin[x].version = v
    IN  AddressOf(model_origin[k].worker_id)

\* C5: lookup(n, v) returns the endpoint registered for (n, v) if that pair
\* is registered; otherwise, if v is not empty and (n, "") is registered,
\* that entry's endpoint; otherwise NotFound.
C5_LookupTwoStepRule ==
    [][\A n \in RegNames, v \in RegVersions :
          LookupWorkerCall(n, v) =>
             ret'.value = IF Registered(n, v) THEN RegisteredEndpoint(n, v)
                          ELSE IF v # "" /\ Registered(n, "")
                               THEN RegisteredEndpoint(n, "")
                               ELSE NotFound]_vars

\* C10: after any sequence of register_model, unregister_model and
\* unregister_worker calls, every key listed by list_models_by_worker(w)
\* is listed by list_models().
C10_WorkerListWithinModelList ==
    \A w \in WorkerIds : SeqRange(list_models_by_worker(w)) \subseteq list_models

\* C11: unregister_worker(w) returns exactly the number of forward-index
\* entries removed by the call (size of the forward index before minus size
\* after), and 0 when w is unknown.
C11_UnregisterWorkerCountsRemoved ==
    [][\A w \in WorkerIds :
          UnregisterWorkerCall(w) =>
             /\ ret'.value = Cardinality(DOMAIN model_to_worker_)
                             - Cardinality(DOMAIN model_to_worker_')
             /\ (w \notin DOMAIN worker_to_models_ => ret'.value = 0)]_vars

(***************************************************************************)
(* Dispatcher properties                                                   *)
(***************************************************************************)

\* C1: every forward_request that acquired a connection decrements in_use
\* exactly once before it returns, on every outcome; so in every state
\* in_use of a pool equals the number of forwards holding a connection to
\* that endpoint.
C1_InUseCountsHolders ==
    \A p \in DOMAIN pools_ : pools_[p].in_use = Cardinality(ConnectedTo(p))

\* C2: when a Worker that has registered models exits without
\* deregistering them, its entries are eventually removed from the registry
\* (unregister_worker is invoked), so that later ModelInfer calls for those
\* models return NOT_FOUND.
C2_ExitedWorkerIsUnregistered ==
    \A w \in LocalWorkers :
       (worker_proc[SocketPathOf(w)] = "exited")
          ~> (\A k \in DOMAIN model_to_worker_ : model_to_worker_[k] # AddressOf(w))

\* C6: if lookup_worker fails for a ModelInfer request, the call returns
\* NOT_FOUND with a message naming the model (and the version if present),
\* acquires no connection and sends nothing, and leaves the registry
\* indices, the pools and the sockets unchanged.
C6_NotFoundIsFastAndPure ==
    [][\A c \in Calls, n \in ModelNames, v \in ModelVersions :
          (ModelInfer(c, n, v) /\ lookup_worker(n, v) = NotFound) =>
             /\ call'[c].pc = "done"
             /\ call'[c].status = "NOT_FOUND"
             /\ call'[c].error_msg = "Model '" \o make_model_key(n, v) \o "' not found"
             /\ call'[c].acquires = 0
             /\ call'[c].sends = 0
             /\ UNCHANGED <<model_to_worker_, worker_to_models_, worker_addresses_,
                            pools_, wire>>]_vars

C6_Witness ==
    \E c \in Calls :
       /\ call[c].pc = "done"
       /\ call[c].status = "NOT_FOUND"
       /\ call[c].error_msg = "Model 'a:v' not found"
       /\ \E p \in DOMAIN pools_ : pools_[p].in_use > 0

PoolWithinCap ==
    \A p \in DOMAIN pools_ :
       /\ pools_[p].in_use + Len(pools_[p].available) <= max_connections
       /\ Cardinality(ConnectedTo(p)) + Len(pools_[p].available) <= max_connections

C9_ForwardReturns ==
    \A c \in Calls : (call[c].pc \in InFlight) ~> (call[c].pc = "done")

(***************************************************************************)
(* Concurrency properties of the registry                                  *)
(***************************************************************************)

\* The threads that hold mutex_ inside an operation.
InCriticalSection == {t \in Threads : thread[t].pc = "cs"}

\* C12: registry operations are linearizable under concurrent callers: a
\* lookup_worker or list_models returns what it would have returned running
\* alone on the forward index as it stood at its call or after the return
\* of a writer that finished since (so a register or unregister that has
\* returned is seen by every later lookup), and no read returns while an
\* unregister_worker is part-way through its keys: at most one thread is
\* inside an operation at any time.
C12_RegistryLinearizable ==
    [][/\ Cardinality(InCriticalSection') <= 1
       /\ \A t \in Threads :
             (LookupWorkerLeave(t) \/ ListModelsLeave(t)) =>
                /\ ret'.value \in thread[t].seen
                /\ ret'.value = AtomicResult(committed, thread[t])
                /\ \A u \in Threads : thread[u].pc # "cs" \/ u = t]_vars

C12_Witness ==
    \E t \in Threads, u \in Threads :
       /\ thread[t].pc = "lock" /\ thread[t].op = "list_models"
       /\ Cardinality(thread[t].seen) >= 2
       /\ thread[u].pc = "cs" /\ thread[u].op = "unregister_worker"
       /\ thread[u].count = 1 /\ Len(thread[u].pending) = 1
       /\ ret.op = "lookup_worker" /\ ret.value # NotFound

(***************************************************************************)
(* Supervisor properties                                                   *)
(***************************************************************************)

InStop == sup.pc \in {"stop_poll", "stop_wait"}

\* C13: stop() on a spawned child first sends SIGTERM, then polls with
\* waitpid(WNOHANG) at most StopPolls times; SIGKILL is sent only after
\* StopPolls polls none of which observed the exit, and then the child is
\* reaped; stop() always returns, and when it has returned the supervisor
\* holds no child pid and the child it was called on has been waited for.
C13_StopTermPollKillReap ==
    /\ [](InStop => /\ sup.sent[1] = "SIGTERM"
                    /\ sup.i <= StopPolls
                    /\ (sup.pc = "stop_wait" <=> Len(sup.sent) = 2))
    /\ [](Len(sup.sent) = 2 => sup.sent[2] = "SIGKILL" /\ sup.i = StopPolls)
    /\ [][((InStop \/ CallStop) /\ sup'.pc = "idle") =>
             /\ ret'.op = "stop"
             /\ worker_pid_' = -1
             /\ child'.state \in {"none", "reaped"}
             /\ child.state # "none" => child'.state = "reaped"]_vars
    /\ (InStop ~> (sup.pc = "idle" /\ ret.op = "stop"))

C13_Witness ==
    /\ ret.op = "stop"
    /\ sup.pc = "idle"
    /\ sup.sent = <<"SIGTERM", "SIGKILL">>
    /\ sup.i = StopPolls
    /\ child.state = "reaped"
    /\ child.killed
    /\ worker_pid_ = -1

\* A step on which wait_for_ready returns.
WaitForReadyReturns ==
    \/ WaitPollReturns
    \/ WaitPollTimeout
    \/ WaitPollError
    \/ \E t \in Timeouts : CallWaitForReady(t) /\ read_fd_ < 0

\* C14: wait_for_ready(t) returns true only if it read at least one byte
\* from the readiness pipe, written there by the child; it returns false
\* when no byte arrived within t seconds, when the child exited (or failed
\* to exec) without signalling, and when no child was spawned; and it is
\* never in poll for more than t seconds.
C14_ReadyOnlyOnByte ==
    [][/\ (sup'.pc = "poll" => sup'.elapsed <= sup'.timeout)
       /\ WaitForReadyReturns =>
             /\ ret'.op = "wait_for_ready"
             /\ ret'.value =>
                   /\ sup'.n > 0
                   /\ pipe.bytes > 0 /\ pipe'.bytes = 0
                   /\ child.state \in {"running", "zombie", "reaped"}
             /\ (read_fd_ < 0 \/ child.state = "none") => ~ret'.value
             /\ (pipe.bytes = 0) => ~ret'.value
             /\ (WaitPollReturns /\ pipe.bytes > 0) => ret'.value]_vars

C14_Witness ==
    /\ ret = [op |-> "wait_for_ready", value |-> TRUE]
    /\ sup.pc = "idle"
    /\ sup.n = 1
    /\ sup.elapsed = sup.timeout
    /\ sup.timeout = MaxTimeout
    /\ pipe.bytes = 0

\* C15: on every path on which the supervisor is destroyed after a
\* successful spawn (readiness timeout, failure to connect, failure to
\* start the server, Worker death, shutdown signal, exception), the child
\* has been terminated and reaped and the socket file at uds_path no longer
\* exists.
C15_DestroyedSupervisorLeavesNothing ==
    (proxy.pc = "exited" /\ proxy.spawned) =>
       /\ child.state = "reaped"
       /\ ~uds_file

(***************************************************************************)
(* Life-cycle properties of the Dispatcher                                 *)
(***************************************************************************)

\* C16: if the inference port or the management port fails to bind,
\* Dispatcher start-up is aborted and the process exits with a non-zero
\* status: a Dispatcher one of whose BuildAndStart calls returned null never
\* exits with status 0.
C16_BindFailureAbortsStartup ==
    (disp.bind_failed /\ disp.pc = "exited") => disp.exit_code # 0

\* Start-up has completed: both servers have been built.
StartupComplete ==
    /\ disp.srv \in {"wait", "returned"}
    /\ disp.mgmt \in {"wait", "returned"}
    /\ ~disp.bind_failed

\* C17: ServerReady answers ready=true when it is answered after start-up
\* has completed and before stop() has begun, and ready=false when it is
\* answered after stop() has begun; ServerLive answers live=true in every
\* state.
C17_ReadyTracksLifecycle ==
    [][/\ ServerReady =>
             /\ (StartupComplete /\ ~disp.stop_begun) => ret'.ready
             /\ disp.stop_begun => ~ret'.ready
       /\ ServerLive => ret'.live]_vars

\* C18: ModelReady(name, version) answers ready=true if and only if the
\* registry lookup for (name, version), the version-less fallback included,
\* succeeds in the state at the time of the call; it changes no registry
\* state and talks to no Worker.  Stated for both implementations of the
\* RPC: KServeServiceImpl over ModelRegistry, GrpcServiceImpl over the
\* capabilities of AnyserveCore.
C18_ModelReadyIsLookup ==
    [][/\ \A n \in ModelNames, v \in ModelVersions :
             ModelReady(n, v) =>
                /\ ret'.ready = (lookup_worker(n, v) # NotFound)
                /\ UNCHANGED <<regvars, dispvars>>
       /\ \A name \in Capabilities, v \in ModelVersions :
             GrpcModelReady(name, v) =>
                /\ ret'.ready = (lookup_capability(name) # <<>>)
                /\ UNCHANGED <<corevars, dispvars>>]_vars

\* C19: once Dispatcher shutdown has begun, every pool is shut down: an
\* acquire made afterwards is rejected, and when stop() has returned no
\* connection to a Worker is open.
C19_ShutdownClosesPools ==
    [][disp.shutdown_begun =>
          /\ \A c \in Calls : ForwardAcquire(c) => call'[c].pc = "done"
          /\ disp'.stopper = "none" =>
                \A p \in SocketPaths : ConnectedTo(p)' = {}]_vars

(***************************************************************************)
(* Framing properties                                                      *)
(***************************************************************************)

\* C20: for every payload of length N, send_data writes the 4-byte
\* big-endian encoding of N followed by exactly the N payload bytes;
\* recv_data applied to these bytes returns exactly the payload and takes
\* exactly 4 + N bytes off the socket; recv_data fails when the stream ends
\* inside the length or inside the payload.
C20_FramingRoundTrip ==
    /\ xfer.pc # "start" =>
          /\ xfer.send_ok <=> Len(xfer.wrote) - 4 = xfer.declared
          /\ Len(xfer.wrote) >= 4 =>
                /\ \A i \in 1..4 : xfer.wrote[i] \in 0..255
                /\ xfer.wrote[1] = xfer.declared \div 16777216
                /\ xfer.wrote[2] = (xfer.declared \div 65536) % 256
                /\ xfer.wrote[3] = (xfer.declared \div 256) % 256
                /\ xfer.wrote[4] = xfer.declared % 256
          /\ xfer.send_ok => SubSeq(xfer.wrote, 5, Len(xfer.wrote)) = payload
    /\ xfer.pc = "payload" => xfer.length = xfer.declared
    /\ xfer.pc = "done" =>
          /\ xfer.recv_ok <=> Len(xfer.wrote) - 4 = xfer.declared
          /\ xfer.recv_ok =>
                /\ xfer.data = payload
                /\ xfer.consumed = 4 + Len(payload)
                /\ Len(sock.bytes) = IF xfer.more THEN 1 ELSE 0

C20_Witness ==
    /\ xfer.pc = "done"
    /\ xfer.recv_ok
    /\ Len(payload) = MaxPayload
    /\ xfer.data = payload
    /\ xfer.more
    /\ sock.bytes # <<>>

(***************************************************************************)
(* Delegation properties                                                   *)
(***************************************************************************)

LiveStreams(r) ==
    {s \in Streams : streams[s].state \in {"open", "broken"} /\ streams[s].replica_id = r}

\* C22: the entry of a replica is returned by Route and by the registry
\* snapshot only while a control stream of that replica is open; when a
\* stream ends, whatever the cause, the entry is removed, no later Route
\* returns it unless the replica registers again, and a stream that broke
\* is eventually ended.
C22_EntryOnlyWhileStreamOpen ==
    /\ [](\A r \in DOMAIN replicas : LiveStreams(r) # {})
    /\ [][/\ \A s \in Streams :
                StreamCloses(s) => streams[s].replica_id \notin DOMAIN replicas'
          /\ \A q \in Queries, x \in Excludes :
                (Route(q, x) /\ ret'.status = 200) => LiveStreams(ret'.replica_id) # {}
          /\ RegistrySnapshot =>
                \A e \in ret'.replicas : LiveStreams(e.replica_id) # {}]_vars
    /\ \A s \in Streams : (streams[s].state = "broken") ~> (streams[s].state = "closed")

\* After the stream of r1 was ended, a query that r1's offer matched is
\* answered 404 while another replica is still registered.
C22_Witness ==
    /\ streams[1] = [state |-> "closed", replica_id |-> "r1"]
    /\ streams[2] = [state |-> "open", replica_id |-> "r2"]
    /\ ret.op = "route"
    /\ ret.status = 404
    /\ ret.query = [type |-> "chat"]
    /\ "r2" \in DOMAIN replicas

\* The key-value pairs of a query or of an offer.
Pairs(f) == {<<k, f[k]>> : k \in DOMAIN f}

\* The registered replicas one of whose offers is a superset of query q.
Offering(q) ==
    {r \in DOMAIN replicas : \E offer \in replicas[r].capabilities : Pairs(q) \subseteq Pairs(offer)}

\* C23: Route(q) returns an entry only if one of that entry's offers
\* contains every key of q with the same value, and answers 404 exactly
\* when no registered entry has such an offer.
C23_RouteIsSubsetMatch ==
    [][\A q \in Queries :
          Route(q, NoExclude) =>
             /\ ret'.status \in {200, 404}
             /\ ret'.status = 200 =>
                   /\ ret'.replica_id \in Offering(q)
                   /\ ret'.endpoint = replicas[ret'.replica_id].endpoint
             /\ ret'.status = 404 <=> Offering(q) = {}]_vars

\* r1 offers {model: m, type: chat} and is returned for the query
\* {model: m}, which r2's offer {type: chat} does not match.
C23_Witness ==
    /\ ret.op = "route"
    /\ ret.exclude = NoExclude
    /\ ret.query = [model |-> "m"]
    /\ ret.status = 200
    /\ ret.replica_id = "r1"
    /\ "r2" \in DOMAIN replicas
    /\ replicas["r2"].capabilities = {OfferChat}

\* C24: Route(q, exclude_replica_id = x) never returns the entry of
\* replica x, and answers 404 when x is the only replica whose offer
\* matches q.
C24_RouteExcludesReplica ==
    [][\A q \in Queries, x \in DirReplicaIds :
          Route(q, x) =>
             /\ ret'.replica_id # x
             /\ Offering(q) \subseteq {x} => ret'.status = 404
             /\ Offering(q) \ {x} # {} => ret'.status = 200]_vars

\* r1 alone matches the query and is excluded: the answer is 404 although
\* r2 is registered.
C24_Witness ==
    /\ ret.op = "route"
    /\ ret.exclude = "r1"
    /\ ret.status = 404
    /\ ret.query = [type |-> "chat"]
    /\ Offering([type |-> "chat"]) = {"r1"}
    /\ "r2" \in DOMAIN replicas

\* The calls other than c that are inside forward_request for socket_path.
OtherForwards(c, socket_path) ==
    {d \in Calls \ {c} : call[d].pc \in InFlight /\ call[d].socket_path = socket_path}

\* C25: pool exhaustion is transient: when no other forward to an endpoint
\* is in flight and its Worker accepts connections, a forward to that
\* endpoint acquires a connection, however many earlier forwards to the
\* endpoint failed in send, receive or response parsing.
C25_ExhaustionIsTransient ==
    [][\A c \in Calls :
          (/\ ForwardAcquire(c)
           /\ OtherForwards(c, call[c].socket_path) = {}
           /\ ConnectOk(call[c].socket_path)) =>
              call'[c].pc = "send"]_vars

(***************************************************************************)
(* Shutdown properties                                                     *)
(***************************************************************************)

\* C26: if stop() is invoked after run() has started, be it while the two
\* server threads are still building their servers, then both gRPC servers
\* are eventually shut down and run() returns; and Shutdown() is called on
\* each server at most once, however often stop() is called.
C26_StopAfterRunShutsDown ==
    /\ disp.shutdown_begun ~>
          (/\ server_ # "serving"
           /\ management_server_ # "serving"
           /\ disp.pc \in {"joined", "exited"})
    /\ [][/\ (StopServer /\ server_ # "null") => server_ = "serving"
          /\ (StopManagement /\ management_server_ # "null") =>
                management_server_ = "serving"]_vars

\* C27: the supervisor never signals a pid whose child it has already
\* reaped: once is_alive() has observed the child's exit, stop() sends
\* neither SIGTERM nor SIGKILL and returns without entering its 5 s poll
\* loop.
C27_NoSignalAfterReap ==
    [][(CallStop /\ child.state = "reaped") =>
          /\ sup'.sent = <<>>
          /\ sup'.pc = "idle"
          /\ ret'.op = "stop"]_vars

\* C28: distinct (model_name, model_version) pairs never alias: when
\* lookup(n2, v2) returns an endpoint, that endpoint is currently
\* registered as (n2, v2) or as (n2, ""); this holds for names that
\* contain ":" as well.
C28_NoKeyAliasing ==
    [][\A n2 \in RegNames, v2 \in RegVersions :
          (LookupWorkerCall(n2, v2) /\ ret'.value # NotFound) =>
             \E k \in DOMAIN model_origin :
                /\ AddressOf(model_origin[k].worker_id) = ret'.value
                /\ model_origin[k].name = n2
                /\ model_origin[k].version \in {v2, ""}]_vars

C30_PoolsGuardedIndependently ==
    \A c, d \in Calls :
       (/\ c # d
        /\ call[d].pc = "acquire"
        /\ ConnectBlocks(d)
        /\ call[c].pc \in {"forward", "release"}
        /\ call[c].socket_path # call[d].socket_path) =>
           ENABLED (AcquireLock(c) \/ ReleaseLocked(c))

(***************************************************************************)
(* Connection pool: failed connects                                        *)
(***************************************************************************)

\* C31: when acquire constructs a new Connection and connect() fails,
\* acquire returns nullptr, in_use and the idle list of the endpoint's pool
\* are what they were when acquire was entered, and the descriptor socket()
\* returned is closed.
C31_ConnectFailureLeavesPool ==
    [][(/\ acquiring.pc = "constructed"
        /\ acquiring.connect_failed
        /\ acquiring'.pc = "returned")
       => /\ acquiring'.result = "null"
          /\ pools_'[acquiring.socket_path] = acquiring.pool0
          /\ acquiring.sockfd \notin fd_table']_vars

\* acquire has returned after a failed connect on a pool with a connection
\* in use and another descriptor open.
C31_Witness ==
    /\ acquiring.pc = "returned"
    /\ acquiring.connect_failed
    /\ acquiring.pool0.in_use > 0
    /\ held # EmptyMap

(***************************************************************************)
(* Management port properties                                              *)
(***************************************************************************)

\* C32: UnregisterModel answers success exactly when the forward index
\* held the request's model key at the call (and then the key is gone);
\* when it answers failure, model_to_worker_, worker_to_models_ and
\* worker_addresses_ are as they were before the call.
C32_UnregisterModelReportsRemoval ==
    [][\A n \in RegNames, v \in RegVersions, w \in WorkerIds :
          UnregisterModel(n, v, w) =>
             /\ ret'.success <=> make_model_key(n, v) \in DOMAIN model_to_worker_
             /\ ret'.success => make_model_key(n, v) \notin DOMAIN model_to_worker_'
             /\ ~ret'.success =>
                   UNCHANGED <<model_to_worker_, worker_to_models_, worker_addresses_>>]_vars

\* UnregisterModel has answered failure while some worker's vector holds a
\* key that the forward index does not.
C32_Witness ==
    /\ ret.op = "UnregisterModel"
    /\ ~ret.success
    /\ \E w \in DOMAIN worker_to_models_ :
          \E k \in SeqRange(worker_to_models_[w]) : k \notin DOMAIN model_to_worker_

\* C33: Heartbeat answers healthy = true for every worker id and changes
\* none of the registry's indices; a step that removes a forward entry or a
\* worker is a step of UnregisterModel or unregister_worker.
C33_HeartbeatHealthyAndInert ==
    /\ [](ret.op = "Heartbeat" => ret.healthy)
    /\ [][ret'.op = "Heartbeat" =>
             UNCHANGED <<model_to_worker_, worker_to_models_, worker_addresses_>>]_vars
    /\ [][(\/ \E k \in DOMAIN model_to_worker_ : k \notin DOMAIN model_to_worker_'
           \/ \E w \in DOMAIN worker_addresses_ : w \notin DOMAIN worker_addresses_')
          => ret'.op \in {"UnregisterModel", "unregister_worker"}]_vars

\* A heartbeat from a worker id the registry does not know has been
\* answered while a registered Worker's process is gone and its entry is
\* still there.
C33_Witness ==
    /\ ret.op = "Heartbeat"
    /\ ret.worker_id \notin DOMAIN worker_addresses_
    /\ \E w \in DOMAIN worker_addresses_ :
          /\ worker_proc[SocketPathOf(w)] = "exited"
          /\ \E k \in DOMAIN model_to_worker_ : model_to_worker_[k] = AddressOf(w)

(***************************************************************************)
(* Worker handle                                                           *)
(***************************************************************************)

\* The Worker handle is Dead: a child was spawned and it has exited, or
\* the handle has given up its pid.
Dead == child.state # "none" /\ (worker_pid_ <= 0 \/ child.state \in {"zombie", "reaped"})

\* C34: Dead is absorbing.  An is_alive() that returns false after a
\* spawn and a stop() that returns after a spawn leave the handle Dead, a
\* Dead handle stays Dead, and is_alive() on a Dead handle returns false.
C34_DeadIsAbsorbing ==
    /\ [][(CallIsAlive /\ child.state # "none" /\ ~ret'.value) => Dead']_vars
    /\ [][(/\ CallStop \/ StopPoll \/ StopWait
           /\ child.state # "none"
           /\ sup'.pc = "idle") => Dead']_vars
    /\ [][Dead => Dead']_vars
    /\ [][(CallIsAlive /\ Dead) => ~ret'.value]_vars

\* is_alive() has returned false with the child waited for and the handle
\* still holding its pid.
C34_Witness ==
    /\ ret.op = "is_alive"
    /\ ~ret.value
    /\ child.state = "reaped"
    /\ worker_pid_ > 0

\* The stream on which replica r registered last.
LatestStream(r) ==
    CHOOSE s \in Streams :
       /\ streams[s].state # "none" /\ streams[s].replica_id = r
       /\ \A t \in Streams :
             (streams[t].state # "none" /\ streams[t].replica_id = r) => t <= s

C36_SupervisorLeaksNothing ==
    /\ handle.write_fd_ = -1
    /\ handle.state = "destroyed" =>
          /\ child.state \in {"none", "reaped"}
          /\ read_fd_ = -1
          /\ \A i \in DOMAIN orphans :
                /\ orphans[i].child \in {"none", "reaped"}
                /\ ~orphans[i].read_open

(***************************************************************************)
(* AnyserveCore life-cycle properties                                      *)
(***************************************************************************)

\* C37: once stop() (or the destructor) has returned and no
\* register_capability call is still running, lookup_capability returns no
\* address of the instance, for any capability.
C37_StoppedCoreIsUnlisted ==
    [][\A name \in Capabilities :
          (CoreLookup(name) /\ core.stops > 0 /\ core.pc = "idle" /\ core.reg = "idle")
          => CoreAddress \notin SeqRange(ret'.value)]_vars

\* The is_delegated argument of the remote_call that sent the request on
\* its last hop: the caller's for a request made by RemoteCall, true for
\* one re-issued by a dispatcher.
LastSent ==
    IF "sent" \in DOMAIN dreq /\ dreq.issued = 1 THEN dreq.sent ELSE TRUE

\* C38: a request issued by remote_call(..., is_delegated = b) reaches the
\* dispatcher callback of the receiving instance with is_delegated = b, and
\* a request without the parameter reaches it with is_delegated = false.
C38_MarkerSurvivesOneHop ==
    [][\A r \in Replicas :
          HopModelInfer(r) =>
             /\ dreq.issued > 0 => ret'.is_delegated = LastSent
             /\ dreq.param = "absent" => ~ret'.is_delegated]_vars

\* A request sent with remote_call(..., true) was handed to the callback
\* as delegated and refused there.
C38_Witness ==
    /\ dreq.pc = "done"
    /\ "sent" \in DOMAIN dreq
    /\ dreq.sent
    /\ dreq.issued = 1
    /\ ret.op = "dispatcher"
    /\ ret.is_delegated
    /\ dreq.status = "INTERNAL"

(***************************************************************************)
(* Shared-memory descriptors                                               *)
(***************************************************************************)

\* The live RawShm objects whose fd is descriptor fd.
ShmHolders(fd) == {o \in ShmObjects : shm[o].state = "live" /\ shm[o].fd = fd}

\* C39: the descriptor opened by a create call is closed exactly once:
\* never more than once, not while the RawShm that owns it lives, and once
\* when no RawShm owns it any more (create threw, or the owner was
\* destroyed or assigned to); at most one RawShm owns it.
C39_ShmFdClosedOnce ==
    \A fd \in DOMAIN fd_closes :
       /\ fd_closes[fd] <= 1
       /\ Cardinality(ShmHolders(fd)) <= 1
       /\ fd_closes[fd] = IF ShmHolders(fd) = {} THEN 1 ELSE 0

====
